---------------------------- MODULE Spec2Model ----------------------------
(***************************************************************************)
(* A model of the text summariser extension: the validators, sanitizers,   *)
(* prompt builder, response parser and error formatters of                 *)
(* src/src/background.js (the service worker's own functions, lines 1-211, *)
(* and the shared utilities, lines 213-437, prefixed utils_ here because   *)
(* both halves define functions of the same name), and the content script  *)
(* and the popup of src/src/content.js.                                    *)
(*                                                                         *)
(* JavaScript strings are TLA+ strings; TLC evaluates Len, \o and SubSeq   *)
(* on them.  A JavaScript value is a record [t |-> type, v |-> string].    *)
(***************************************************************************)
EXTENDS Integers, Sequences, FiniteSets, TLC

(***************************************************************************)
(* JavaScript values                                                       *)
(***************************************************************************)
Undefined == [t |-> "undefined", v |-> ""]
Null      == [t |-> "null", v |-> ""]
Str(s)    == [t |-> "string", v |-> s]
Num(d)    == [t |-> "number", v |-> d]      \* d: the number's decimal text
Bool(b)   == [t |-> "boolean", v |-> b]     \* b: "true" or "false"
Err(m)    == [t |-> "Error", v |-> m]       \* new Error(m)
Obj       == [t |-> "object", v |-> ""]     \* an object that is no Error

\* ToBoolean: what `!x` and `x || y` test.
Truthy(x) ==
    CASE x.t = "undefined" -> FALSE
      [] x.t = "null"      -> FALSE
      [] x.t = "string"    -> x.v # ""
      [] x.t = "number"    -> x.v # "0"
      [] x.t = "boolean"   -> x.v = "true"
      [] OTHER             -> TRUE

(***************************************************************************)
(* String.prototype methods                                                *)
(***************************************************************************)
CharAt(s, i) == SubSeq(s, i, i)

\* The white space of the modelled alphabet (String.prototype.trim and \s).
WhiteSpace == {" ", "\t", "\n"}

RECURSIVE FirstNonWS(_, _)
FirstNonWS(s, i) ==
    IF i > Len(s) \/ CharAt(s, i) \notin WhiteSpace THEN i ELSE FirstNonWS(s, i + 1)

RECURSIVE LastNonWS(_, _)
LastNonWS(s, i) ==
    IF i < 1 \/ CharAt(s, i) \notin WhiteSpace THEN i ELSE LastNonWS(s, i - 1)

\* s.trim()
trim(s) ==
    LET a == FirstNonWS(s, 1)
    IN  IF a > Len(s) THEN "" ELSE SubSeq(s, a, LastNonWS(s, Len(s)))

\* s.startsWith(p)
startsWith(s, p) == Len(p) <= Len(s) /\ SubSeq(s, 1, Len(p)) = p

\* s.includes(p)
includes(s, p) ==
    \E i \in 1..(Len(s) - Len(p) + 1) : SubSeq(s, i, i + Len(p) - 1) = p

\* c repeated n times.
RECURSIVE Rep(_, _)
Rep(c, n) ==
    IF n = 0 THEN ""
    ELSE IF n % 2 = 0 THEN LET h == Rep(c, n \div 2) IN h \o h
    ELSE c \o Rep(c, n - 1)

\* The end of the maximal run of characters of class cls that starts at i.
RECURSIVE RunEnd(_, _, _)
RunEnd(s, i, cls) ==
    IF i + 1 <= Len(s) /\ CharAt(s, i + 1) \in cls THEN RunEnd(s, i + 1, cls) ELSE i

\* s.replace(/[cls]{min,}/g, rep), scanning from position i: the regular
\* expression is greedy, so a match is a maximal run of at least min
\* characters of cls, and a shorter run is copied unchanged.
RECURSIVE ReplaceFrom(_, _, _, _, _)
ReplaceFrom(s, i, cls, min, rep) ==
    IF i > Len(s) THEN ""
    ELSE IF CharAt(s, i) \in cls
         THEN LET e == RunEnd(s, i, cls)
              IN  (IF e - i + 1 >= min THEN rep ELSE SubSeq(s, i, e))
                      \o ReplaceFrom(s, e + 1, cls, min, rep)
         ELSE CharAt(s, i) \o ReplaceFrom(s, i + 1, cls, min, rep)

replace(s, cls, min, rep) == ReplaceFrom(s, 1, cls, min, rep)

(***************************************************************************)
(* src/src/background.js, lines 1-211: the service worker's functions      *)
(***************************************************************************)

\* validateText with the lower limit off by one (<= for <).
validateText_offByOne(text) ==
    IF ~Truthy(text) \/ text.t # "string"
    THEN [valid |-> FALSE, error |-> Str("No text provided")]
    ELSE LET trimmedText == trim(text.v)
         IN  IF Len(trimmedText) <= 10
             THEN [valid |-> FALSE,
                   error |-> Str("Selected text is too short. Please select at least 10 characters.")]
             ELSE IF Len(trimmedText) > 10000
             THEN [valid |-> FALSE,
                   error |-> Str("Selected text is too long. Please select less than 10,000 characters.")]
             ELSE [valid |-> TRUE, error |-> Null]

\* validateText (background.js 129-145): the {valid, error} object; error is
\* Null when valid.
validateText(text) ==
    IF ~Truthy(text) \/ text.t # "string"
    THEN [valid |-> FALSE, error |-> Str("No text provided")]
    ELSE LET trimmedText == trim(text.v)
         IN  IF Len(trimmedText) < 10
             THEN [valid |-> FALSE,
                   error |-> Str("Selected text is too short. Please select at least 10 characters.")]
             ELSE IF Len(trimmedText) > 10000
             THEN [valid |-> FALSE,
                   error |-> Str("Selected text is too long. Please select less than 10,000 characters.")]
             ELSE [valid |-> TRUE, error |-> Null]

\* s.replace(/c{n}/g, rep): each n consecutive characters c, not the whole run.
RECURSIVE ReplaceExactFrom(_, _, _, _, _)
ReplaceExactFrom(s, i, c, n, rep) ==
    IF i > Len(s) THEN ""
    ELSE IF i + n - 1 <= Len(s) /\ SubSeq(s, i, i + n - 1) = Rep(c, n)
         THEN rep \o ReplaceExactFrom(s, i + n, c, n, rep)
         ELSE CharAt(s, i) \o ReplaceExactFrom(s, i + 1, c, n, rep)

\* sanitizeText with /\n{3}/g for /\n{3,}/g.
sanitizeText_exactlyThree(text) ==
    IF ~Truthy(text) THEN ""
    ELSE ReplaceExactFrom(replace(trim(text.v), WhiteSpace \ {"\n"}, 1, " "),
                          1, "\n", 3, "\n\n")

\* sanitizeText (background.js 152-159), for a string or a falsy value:
\* /[^\S\n]+/g is a run of white space other than the newline.
sanitizeText(text) ==
    IF ~Truthy(text) THEN ""
    ELSE replace(replace(trim(text.v), WhiteSpace \ {"\n"}, 1, " "), {"\n"}, 3, "\n\n")

\* createSummaryPrompt that trims the text it embeds.
createSummaryPrompt_trimmed(text) ==
    "Please provide a concise summary of the following text in 2-3 sentences:\n\n"
        \o trim(text)

\* createSummaryPrompt (background.js 166-168): a template literal.
createSummaryPrompt(text) ==
    "Please provide a concise summary of the following text in 2-3 sentences:\n\n" \o text

\* formatErrorMessage (background.js 199-209).
formatErrorMessage(error) ==
    IF error.t = "string" THEN error.v
    ELSE IF error.t = "Error"
    THEN (IF error.v # "" THEN error.v
          ELSE "An error occurred while generating the summary.")
    ELSE "An error occurred while generating the summary."

(***************************************************************************)
(* An API response (the parsed JSON body), as deep as parseApiResponse     *)
(* looks: response, response.choices, choices[0], choices[0].message,      *)
(* message.content.  kind is the JavaScript type of each level; a level    *)
(* below one that is no object is not read.                                *)
(***************************************************************************)
Response(rk, ck, n, ek, mk, content) ==
    [kind |-> rk,            \* "null" | "object"
     choices |-> ck,         \* "undefined" | "null" | "array" | "number"
     length |-> n,           \* choices.length of an array
     first |-> ek,           \* choices[0]: "undefined" | "null" | "object" | "number"
     message |-> mk,         \* choices[0].message: "undefined" | "null" | "object" | "number"
     content |-> content]    \* message.content: a JavaScript value

\* What `response.choices[0].message?.content` evaluates to, or the
\* TypeError of reading a property of null or undefined.
ContentOf(response) ==
    IF response.choices = "number" \/ response.first \in {"undefined", "null"}
    THEN [t |-> "throw", v |-> "TypeError"]
    ELSE IF response.first = "object" /\ response.message = "object"
    THEN [t |-> "value", v |-> response.content]
    ELSE [t |-> "value", v |-> Undefined]

\* The body of the try block of parseApiResponse: the value returned or the
\* error thrown, before the catch clause.
ParseTry(response, invalid) ==
    IF response.kind = "null" \/ response.choices \in {"undefined", "null"}
           \/ (response.choices = "array" /\ response.length = 0)
    THEN [t |-> "throw", v |-> Err(invalid)]
    ELSE LET summary == ContentOf(response)
         IN  IF summary.t = "throw" THEN [t |-> "throw", v |-> Err(summary.v)]
             ELSE IF ~Truthy(summary.v) THEN [t |-> "throw", v |-> Err(invalid)]
             ELSE IF summary.v.t # "string"
             THEN [t |-> "throw", v |-> Err("TypeError")]   \* summary.trim is not a function
             ELSE [t |-> "return", v |-> trim(summary.v.v)]

\* parseApiResponse without its try/catch: a TypeError escapes.
parseApiResponse_noCatch(response) == ParseTry(response, "Invalid response from API")

\* parseApiResponse (background.js 175-192): the catch clause replaces every
\* error by a new Error of the fixed message.
parseApiResponse(response) ==
    LET r == ParseTry(response, "Invalid response from API")
    IN  IF r.t = "throw" THEN [t |-> "throw", v |-> Err("Invalid response from API")]
        ELSE r

(***************************************************************************)
(* src/src/background.js, lines 213-437: the shared utilities (utils.js)   *)
(***************************************************************************)

\* ERROR_MESSAGES (background.js 231-239)
ERROR_MESSAGES ==
    [NO_API_KEY |-> "Please set your OpenAI API key first.",
     NO_TEXT_SELECTED |-> "Please highlight some text on the webpage first.",
     API_ERROR |-> "Failed to generate summary. Please check your API key and try again.",
     NETWORK_ERROR |-> "Network error. Please check your internet connection.",
     INVALID_RESPONSE |-> "Received invalid response from API.",
     TEXT_TOO_SHORT |-> "Selected text is too short. Please select at least 10 characters.",
     TEXT_TOO_LONG |-> "Selected text is too long. Please select less than 10,000 characters."]

\* validateText without its lower limit.
utils_validateText_noMinimum(text) ==
    IF ~Truthy(text) \/ text.t # "string"
    THEN [valid |-> FALSE, error |-> Str(ERROR_MESSAGES.NO_TEXT_SELECTED)]
    ELSE LET trimmedText == trim(text.v)
         IN  IF Len(trimmedText) > 10000
             THEN [valid |-> FALSE, error |-> Str(ERROR_MESSAGES.TEXT_TOO_LONG)]
             ELSE [valid |-> TRUE, error |-> Null]

\* validateText (background.js 246-262)
utils_validateText(text) ==
    IF ~Truthy(text) \/ text.t # "string"
    THEN [valid |-> FALSE, error |-> Str(ERROR_MESSAGES.NO_TEXT_SELECTED)]
    ELSE LET trimmedText == trim(text.v)
         IN  IF Len(trimmedText) < 10
             THEN [valid |-> FALSE, error |-> Str(ERROR_MESSAGES.TEXT_TOO_SHORT)]
             ELSE IF Len(trimmedText) > 10000
             THEN [valid |-> FALSE, error |-> Str(ERROR_MESSAGES.TEXT_TOO_LONG)]
             ELSE [valid |-> TRUE, error |-> Null]

\* validateApiKey with >= 20 for > 20.
validateApiKey_atLeast20(apiKey) ==
    IF ~Truthy(apiKey) \/ apiKey.t # "string" THEN FALSE
    ELSE startsWith(apiKey.v, "sk-") /\ Len(apiKey.v) >= 20

\* validateApiKey (background.js 269-276)
validateApiKey(apiKey) ==
    IF ~Truthy(apiKey) \/ apiKey.t # "string" THEN FALSE
    ELSE startsWith(apiKey.v, "sk-") /\ Len(apiKey.v) > 20

\* sanitizeText without the trim.
utils_sanitizeText_noTrim(text) ==
    IF ~Truthy(text) THEN ""
    ELSE replace(replace(text.v, WhiteSpace, 1, " "), {"\n"}, 3, "\n\n")

\* sanitizeText (background.js 283-290): /\s+/g is a run of any white space,
\* the newline included.
utils_sanitizeText(text) ==
    IF ~Truthy(text) THEN ""
    ELSE replace(replace(trim(text.v), WhiteSpace, 1, " "), {"\n"}, 3, "\n\n")

\* formatErrorMessage that looks for "429" before "401".
utils_formatErrorMessage_429First(error) ==
    IF error.t = "string" THEN error.v
    ELSE IF error.t = "Error"
    THEN (IF includes(error.v, "429")
          THEN "Rate limit exceeded. Please try again later."
          ELSE IF includes(error.v, "401")
          THEN "Invalid API key. Please check your OpenAI API key."
          ELSE IF includes(error.v, "500")
          THEN "OpenAI service error. Please try again later."
          ELSE IF error.v # "" THEN error.v
          ELSE ERROR_MESSAGES.API_ERROR)
    ELSE ERROR_MESSAGES.API_ERROR

\* formatErrorMessage (background.js 297-318)
utils_formatErrorMessage(error) ==
    IF error.t = "string" THEN error.v
    ELSE IF error.t = "Error"
    THEN (IF includes(error.v, "401")
          THEN "Invalid API key. Please check your OpenAI API key."
          ELSE IF includes(error.v, "429")
          THEN "Rate limit exceeded. Please try again later."
          ELSE IF includes(error.v, "500")
          THEN "OpenAI service error. Please try again later."
          ELSE IF error.v # "" THEN error.v
          ELSE ERROR_MESSAGES.API_ERROR)
    ELSE ERROR_MESSAGES.API_ERROR

\* createSummaryPrompt (background.js 325-327)
utils_createSummaryPrompt(text) ==
    "Please provide a concise summary of the following text in 2-3 sentences:\n\n" \o text

\* parseApiResponse (background.js 334-351)
utils_parseApiResponse(response) ==
    LET r == ParseTry(response, ERROR_MESSAGES.INVALID_RESPONSE)
    IN  IF r.t = "throw" THEN [t |-> "throw", v |-> Err(ERROR_MESSAGES.INVALID_RESPONSE)]
        ELSE r

(***************************************************************************)
(* The running extension: the content script of a page, the popup, the     *)
(* service worker, the two storage areas and the remote endpoint.          *)
(***************************************************************************)
VARIABLES
    syncStore,     \* chrome.storage.sync: openai_api_key, selected_text
    localStore,    \* chrome.storage.local: selected_text, last_summary, last_summary_time
    selectedText,  \* the content script's `let selectedText` (content.js 6)
    popup,         \* "closed", or "open" once DOMContentLoaded has fired
    ui,            \* the popup's elements: style.display of the six views, three texts
    storageQ,      \* the popup's pending chrome.storage.sync calls, in call order
    requests,      \* summarizeText messages sent and not yet received
    calls,         \* the fetches issued, each with its outcome once it has one
    responses,     \* sendResponse payloads not yet delivered to the popup's callback
    attempts,      \* history: one record per attemptSummarization started
    events,        \* the number of save and clear actions taken so far
    clock,         \* the last Date.now() read
    copyButton,    \* the copy button: its textContent and two inline styles
    clipboard,     \* what navigator.clipboard holds
    copyQ,         \* the clipboard writes awaited by handleCopyToClipboard, in order
    timers,        \* the pending 2000 ms timeouts, each with its originalText
    copies,        \* the number of clicks of the copy button so far
    call           \* one invocation of a pure function (SpecFn only)

copyvars == <<copyButton, clipboard, copyQ, timers, copies>>

sysvars == <<syncStore, localStore, selectedText, popup, ui, storageQ, requests,
             calls, responses, attempts, events, clock, copyvars>>

vars == <<syncStore, localStore, selectedText, popup, ui, storageQ, requests,
          calls, responses, attempts, events, clock, copyvars, call>>

MaxEvents == 1      \* save and clear actions of the user in one popup session
MaxClock == 2       \* Date.now() ranges over 1..MaxClock
MaxCopies == 2      \* clicks of the copy button in one popup session

VALID_KEY == "sk-1234567890abcdefghijklmnop"
VALID_TEXT == "This is a valid text that is long enough to be processed."

\* What window.getSelection().toString() may be at a selection event.
Selections == {"  ", " " \o VALID_TEXT \o "\n"}

\* What the user may have typed into the apiKey input at a save.
KeyEntries == {" " \o VALID_KEY \o " ", "sk-short"}

\* chrome.storage.sync is persisted outside the program and replicated from
\* the user's other browsers: the popup reads whatever it holds.  No code of
\* the repository writes selected_text there (captureTextSelection writes
\* chrome.storage.local), so what the popup finds under that key is an input.
SyncTexts ==
    {Undefined, Str(""), Str("  "), Str("Hi"), Str(VALID_TEXT),
     Str("Some   text\twith\n\n\n\nbreaks"), Str(Rep("a", 10001))}

\* ---- the popup's views (content.js 259-319) ----

InitialUi ==
    [apiKeySection |-> "", summarySection |-> "", loadingState |-> "",
     summaryContent |-> "", errorState |-> "", instructionState |-> "",
     summaryText |-> "", errorText |-> "", statusText |-> ""]

showApiKeySection(u) ==
    [u EXCEPT !.apiKeySection = "block", !.summarySection = "none"]

showSummarySection(u) ==
    [u EXCEPT !.apiKeySection = "none", !.summarySection = "block"]

showLoading(u) ==
    [u EXCEPT !.loadingState = "flex", !.summaryContent = "none",
              !.errorState = "none", !.instructionState = "none",
              !.statusText = "Generating..."]

\* showSummary that leaves the loading view displayed.
showSummary_keepsLoading(u, summary) ==
    [u EXCEPT !.summaryContent = "block",
              !.errorState = "none", !.instructionState = "none",
              !.summaryText = summary, !.statusText = "Summary generated"]

showSummary(u, summary) ==
    [u EXCEPT !.loadingState = "none", !.summaryContent = "block",
              !.errorState = "none", !.instructionState = "none",
              !.summaryText = summary, !.statusText = "Summary generated"]

\* showError that leaves the summary view displayed.
showError_keepsSummary(u, message) ==
    [u EXCEPT !.loadingState = "none",
              !.errorState = "block", !.instructionState = "none",
              !.errorText = message, !.statusText = "Error"]

showError(u, message) ==
    [u EXCEPT !.loadingState = "none", !.summaryContent = "none",
              !.errorState = "block", !.instructionState = "none",
              !.errorText = message, !.statusText = "Error"]

showInstruction(u) ==
    [u EXCEPT !.loadingState = "none", !.summaryContent = "none",
              !.errorState = "none", !.instructionState = "block",
              !.statusText = "Ready"]

\* The state of the UI state controller that the visible views amount to.
UIStateOf(u) ==
    IF u.apiKeySection = "block" /\ u.summarySection = "none" THEN "AwaitingCredential"
    ELSE IF u.summarySection # "block" THEN "Initial"
    ELSE IF u.loadingState = "flex" THEN "Loading"
    ELSE IF u.summaryContent = "block" THEN "ShowingSummary"
    ELSE IF u.errorState = "block" THEN "ShowingError"
    ELSE IF u.instructionState = "block" THEN "AwaitingSelection"
    ELSE "Initial"

UIState == UIStateOf(ui)

\* ---- history of the attempts ----

NewAttempt(apiKey) ==
    [apiKey |-> apiKey,        \* the credential the attempt was started with
     result |-> "reading",     \* "reading", then "readFailed" | "instruction" |
                               \* "invalid" | "sent", then "summary" | "error"
     text |-> Undefined,       \* what the attempt read under selected_text
     captured |-> Undefined,   \* what the content script had stored by then
     shown |-> ""]             \* the summary or the error message it displayed

\* A pending chrome.storage.sync call of the popup and what resumes after it.
Pending_(pc, id, apiKey) == [pc |-> pc, id |-> id, apiKey |-> apiKey]

\* ---- the content script (content.js 1-66) ----

\* captureTextSelection that stores the selection whatever it is.
captureTextSelection_noTest(selection) ==
    LET text == trim(selection)
    IN  /\ selectedText' = text
        /\ localStore' = [localStore EXCEPT !.selected_text = Str(text)]
        /\ UNCHANGED <<syncStore, popup, ui, storageQ, requests, calls, responses,
                       attempts, events, clock, copyvars>>

\* captureTextSelection (content.js 11-22), on a mouseup or keyup event.
captureTextSelection(selection) ==
    LET text == trim(selection)
    IN  /\ IF text # ""
           THEN /\ selectedText' = text
                /\ localStore' = [localStore EXCEPT !.selected_text = Str(text)]
           ELSE UNCHANGED <<selectedText, localStore>>
        /\ UNCHANGED <<syncStore, popup, ui, storageQ, requests, calls, responses,
                       attempts, events, clock, copyvars>>

SelectionEvent ==
    \E selection \in Selections : captureTextSelection(selection) /\ UNCHANGED call

\* getSelectedText that prefers the last captured selection to the live one.
getSelectedText_lastFirst(selection) ==
    LET text == trim(selection)
    IN  [success |-> TRUE, text |-> IF selectedText # "" THEN selectedText ELSE text]

\* The content script's onMessage listener (content.js 42-54) for a request
\* whose action is getSelectedText: what it hands to sendResponse.
getSelectedText(selection) ==
    LET text == trim(selection)
    IN  [success |-> TRUE, text |-> IF text # "" THEN text ELSE selectedText]

\* ---- the popup (content.js 68-321) ----

\* The DOMContentLoaded handler (content.js 89-119) up to the await inside
\* checkApiKey: the listeners are wired and the credential read is pending.
DOMContentLoaded ==
    /\ popup = "closed"
    /\ popup' = "open"
    /\ storageQ' = Append(storageQ, Pending_("checkApiKey", 0, ""))
    /\ UNCHANGED <<syncStore, localStore, selectedText, ui, requests, calls,
                   responses, attempts, events, clock, call, copyvars>>

\* checkApiKey without the test of the credential it read.
checkApiKey_noTest(ok) ==
    /\ storageQ # <<>>
    /\ Head(storageQ).pc = "checkApiKey"
    /\ LET apiKey == syncStore.openai_api_key
       IN  IF ok
           THEN /\ ui' = showLoading(showSummarySection(ui))
                /\ attempts' = Append(attempts, NewAttempt(apiKey.v))
                /\ storageQ' = Append(Tail(storageQ),
                                      Pending_("attempt", Len(attempts) + 1, apiKey.v))
           ELSE /\ ui' = showApiKeySection(ui)
                /\ storageQ' = Tail(storageQ)
                /\ UNCHANGED attempts
    /\ UNCHANGED <<syncStore, localStore, selectedText, popup, requests, calls,
                   responses, events, clock, call, copyvars>>

\* checkApiKey (content.js 124-141) after getFromStorage settles; with a valid
\* stored key it runs attemptSummarization up to its own storage read.
checkApiKey(ok) ==
    /\ storageQ # <<>>
    /\ Head(storageQ).pc = "checkApiKey"
    /\ LET apiKey == syncStore.openai_api_key
       IN  IF ok /\ Truthy(apiKey) /\ validateApiKey(apiKey)
           THEN /\ ui' = showLoading(showSummarySection(ui))
                /\ attempts' = Append(attempts, NewAttempt(apiKey.v))
                /\ storageQ' = Append(Tail(storageQ),
                                      Pending_("attempt", Len(attempts) + 1, apiKey.v))
           ELSE /\ ui' = showApiKeySection(ui)
                /\ storageQ' = Tail(storageQ)
                /\ UNCHANGED attempts
    /\ UNCHANGED <<syncStore, localStore, selectedText, popup, requests, calls,
                   responses, events, clock, call, copyvars>>

CheckApiKeyResumes == \E ok \in BOOLEAN : checkApiKey(ok)

\* handleSaveApiKey that stores whatever was entered, trimmed.
handleSaveApiKey_noValidation(value) ==
    /\ popup = "open"
    /\ events < MaxEvents
    /\ events' = events + 1
    /\ storageQ' = Append(storageQ, Pending_("save", 0, trim(value)))
    /\ UNCHANGED <<syncStore, localStore, selectedText, popup, ui, requests, calls,
                   responses, attempts, clock, call, copyvars>>

\* handleSaveApiKey (content.js 146-163) up to the await of saveToStorage.
handleSaveApiKey(value) ==
    LET apiKey == trim(value)
    IN  /\ popup = "open"
        /\ events < MaxEvents
        /\ events' = events + 1
        /\ IF ~validateApiKey(Str(apiKey))
           THEN /\ ui' = showError(ui, "Please enter a valid OpenAI API key (starts with \"sk-\")")
                /\ UNCHANGED storageQ
           ELSE /\ storageQ' = Append(storageQ, Pending_("save", 0, apiKey))
                /\ UNCHANGED ui
        /\ UNCHANGED <<syncStore, localStore, selectedText, popup, requests, calls,
                       responses, attempts, clock, call, copyvars>>

SaveApiKeyAction == \E value \in KeyEntries : handleSaveApiKey(value)

\* saveApiKeySettles that goes on to the attempt after a failed write.
saveApiKeySettles_ignoresFailure(ok) ==
    /\ storageQ # <<>>
    /\ Head(storageQ).pc = "save"
    /\ LET apiKey == Head(storageQ).apiKey
       IN  /\ syncStore' = IF ok THEN [syncStore EXCEPT !.openai_api_key = Str(apiKey)]
                           ELSE syncStore
           /\ ui' = showLoading(showSummarySection(ui))
           /\ attempts' = Append(attempts, NewAttempt(apiKey))
           /\ storageQ' = Append(Tail(storageQ),
                                 Pending_("attempt", Len(attempts) + 1, apiKey))
    /\ UNCHANGED <<localStore, selectedText, popup, requests, calls, responses,
                   events, clock, call, copyvars>>

\* handleSaveApiKey after saveToStorage settles: on success the key is stored
\* and attemptSummarization runs up to its storage read.
saveApiKeySettles(ok) ==
    /\ storageQ # <<>>
    /\ Head(storageQ).pc = "save"
    /\ LET apiKey == Head(storageQ).apiKey
       IN  IF ok
           THEN /\ syncStore' = [syncStore EXCEPT !.openai_api_key = Str(apiKey)]
                /\ ui' = showLoading(showSummarySection(ui))
                /\ attempts' = Append(attempts, NewAttempt(apiKey))
                /\ storageQ' = Append(Tail(storageQ),
                                      Pending_("attempt", Len(attempts) + 1, apiKey))
           ELSE /\ ui' = showError(ui, "Failed to save API key. Please try again.")
                /\ storageQ' = Tail(storageQ)
                /\ UNCHANGED <<syncStore, attempts>>
    /\ UNCHANGED <<localStore, selectedText, popup, requests, calls, responses,
                   events, clock, call, copyvars>>

SaveApiKeyResumes == \E ok \in BOOLEAN : saveApiKeySettles(ok)

\* handleClearApiKey (content.js 168-176) up to the await of removeFromStorage.
handleClearApiKey ==
    /\ popup = "open"
    /\ events < MaxEvents
    /\ events' = events + 1
    /\ storageQ' = Append(storageQ, Pending_("clear", 0, ""))
    /\ UNCHANGED <<syncStore, localStore, selectedText, popup, ui, requests, calls,
                   responses, attempts, clock, call, copyvars>>

\* clearApiKeySettles without the call of showApiKeySection.
clearApiKeySettles_keepsSection(ok) ==
    /\ storageQ # <<>>
    /\ Head(storageQ).pc = "clear"
    /\ storageQ' = Tail(storageQ)
    /\ IF ok
       THEN /\ syncStore' = [syncStore EXCEPT !.openai_api_key = Undefined]
            /\ UNCHANGED ui
       ELSE /\ ui' = showError(ui, "Failed to clear API key. Please try again.")
            /\ UNCHANGED syncStore
    /\ UNCHANGED <<localStore, selectedText, popup, requests, calls, responses,
                   attempts, events, clock, call, copyvars>>

\* handleClearApiKey after removeFromStorage settles.
clearApiKeySettles(ok) ==
    /\ storageQ # <<>>
    /\ Head(storageQ).pc = "clear"
    /\ storageQ' = Tail(storageQ)
    /\ IF ok
       THEN /\ syncStore' = [syncStore EXCEPT !.openai_api_key = Undefined]
            /\ ui' = showApiKeySection(ui)
       ELSE /\ ui' = showError(ui, "Failed to clear API key. Please try again.")
            /\ UNCHANGED syncStore
    /\ UNCHANGED <<localStore, selectedText, popup, requests, calls, responses,
                   attempts, events, clock, call, copyvars>>

ClearApiKeyResumes == \E ok \in BOOLEAN : clearApiKeySettles(ok)

SetAttempt(id, result, text, shown) ==
    [attempts EXCEPT ![id] = [@ EXCEPT !.result = result, !.text = text,
                                       !.captured = localStore.selected_text,
                                       !.shown = shown]]

\* attemptSummarization without the test for a missing or blank selection.
attemptSummarization_noBlankTest(ok) ==
    /\ storageQ # <<>>
    /\ Head(storageQ).pc = "attempt"
    /\ storageQ' = Tail(storageQ)
    /\ LET id == Head(storageQ).id
           apiKey == Head(storageQ).apiKey
           text == syncStore.selected_text
           validation == utils_validateText(text)
       IN  IF ~ok
           THEN /\ ui' = showError(ui, utils_formatErrorMessage(Obj))
                /\ attempts' = SetAttempt(id, "readFailed", Undefined,
                                          utils_formatErrorMessage(Obj))
                /\ UNCHANGED requests
           ELSE IF ~validation.valid
           THEN /\ ui' = showError(ui, validation.error.v)
                /\ attempts' = SetAttempt(id, "invalid", text, validation.error.v)
                /\ UNCHANGED requests
           ELSE /\ requests' = requests \cup
                                   {[id |-> id, text |-> text, apiKey |-> Str(apiKey)]}
                /\ attempts' = SetAttempt(id, "sent", text, "")
                /\ UNCHANGED ui
    /\ UNCHANGED <<syncStore, localStore, selectedText, popup, calls, responses,
                   events, clock, call, copyvars>>

\* attemptSummarization (content.js 181-227) after getFromStorage settles
\* (showLoading and the storage call ran in the caller's step).  A failed
\* read rejects with chrome.runtime.lastError, an object that is no Error.
attemptSummarization(ok) ==
    /\ storageQ # <<>>
    /\ Head(storageQ).pc = "attempt"
    /\ storageQ' = Tail(storageQ)
    /\ LET id == Head(storageQ).id
           apiKey == Head(storageQ).apiKey
           text == syncStore.selected_text
           validation == utils_validateText(text)
       IN  IF ~ok
           THEN /\ ui' = showError(ui, utils_formatErrorMessage(Obj))
                /\ attempts' = SetAttempt(id, "readFailed", Undefined,
                                          utils_formatErrorMessage(Obj))
                /\ UNCHANGED requests
           ELSE IF ~Truthy(text) \/ Len(trim(text.v)) = 0
           THEN /\ ui' = showInstruction(ui)
                /\ attempts' = SetAttempt(id, "instruction", text, "")
                /\ UNCHANGED requests
           ELSE IF ~validation.valid
           THEN /\ ui' = showError(ui, validation.error.v)
                /\ attempts' = SetAttempt(id, "invalid", text, validation.error.v)
                /\ UNCHANGED requests
           ELSE /\ requests' = requests \cup
                                   {[id |-> id, text |-> text, apiKey |-> Str(apiKey)]}
                /\ attempts' = SetAttempt(id, "sent", text, "")
                /\ UNCHANGED ui
    /\ UNCHANGED <<syncStore, localStore, selectedText, popup, calls, responses,
                   events, clock, call, copyvars>>

AttemptResumes == \E ok \in BOOLEAN : attemptSummarization(ok)

\* ---- the copy button (content.js 229-254) ----

\* The button as popup.html declares it: its label, no inline style.
COPY_LABEL == "Copy to Clipboard"

COPIED_LABEL == "(check mark) Copied!"

InitialCopyButton == [textContent |-> COPY_LABEL, background |-> "", color |-> ""]

\* The button is part of the summary view: it can be clicked while that view
\* is the visible one.
CopyButtonVisible == UIState = "ShowingSummary"

\* handleCopyToClipboard (content.js 232-236) up to the await of
\* navigator.clipboard.writeText.
handleCopyToClipboard ==
    /\ popup = "open"
    /\ CopyButtonVisible
    /\ copies < MaxCopies
    /\ copies' = copies + 1
    /\ copyQ' = Append(copyQ, ui.summaryText)
    /\ UNCHANGED <<syncStore, localStore, selectedText, popup, ui, storageQ, requests,
                   calls, responses, attempts, events, clock, copyButton, clipboard,
                   timers, call>>

\* handleCopyToClipboard (content.js 238-253) after writeText settles: the
\* confirmation is shown and its timeout set, or the error is shown.
clipboardSettles(ok) ==
    /\ copyQ # <<>>
    /\ copyQ' = Tail(copyQ)
    /\ IF ok
       THEN LET originalText == copyButton.textContent
            IN  /\ clipboard' = Head(copyQ)
                /\ copyButton' = [textContent |-> COPIED_LABEL,
                                  background |-> "#4caf50", color |-> "white"]
                /\ timers' = Append(timers, originalText)
                /\ UNCHANGED ui
       ELSE /\ ui' = showError(ui, "Failed to copy to clipboard")
            /\ UNCHANGED <<clipboard, copyButton, timers>>
    /\ UNCHANGED <<syncStore, localStore, selectedText, popup, storageQ, requests,
                   calls, responses, attempts, events, clock, copies, call>>

ClipboardWriteSettles == \E ok \in BOOLEAN : clipboardSettles(ok)

\* The callback of setTimeout (content.js 244-248); the timeouts have one
\* delay, so they fire in the order they were set.
copyTimeout ==
    /\ timers # <<>>
    /\ copyButton' = [textContent |-> Head(timers), background |-> "", color |-> ""]
    /\ timers' = Tail(timers)
    /\ UNCHANGED <<syncStore, localStore, selectedText, popup, ui, storageQ, requests,
                   calls, responses, attempts, events, clock, clipboard, copyQ,
                   copies, call>>

\* A sendResponse payload, or the lastError of a failed channel.
Reply(id, lastError, success, summary, error) ==
    [id |-> id, lastError |-> lastError, success |-> success,
     summary |-> summary, error |-> error]

\* The sendMessage callback (content.js 209-220).
sendMessageCallback(response) ==
    /\ popup = "open"
    /\ response \in responses
    /\ responses' = responses \ {response}
    /\ LET message == IF response.lastError # ""
                      THEN "Extension error: " \o response.lastError
                      ELSE IF response.error # "" THEN response.error
                      ELSE "Failed to generate summary"
       IN  IF response.lastError = "" /\ response.success
           THEN /\ ui' = showSummary(ui, response.summary)
                /\ attempts' = [attempts EXCEPT ![response.id] =
                                   [@ EXCEPT !.result = "summary",
                                             !.shown = response.summary]]
           ELSE /\ ui' = showError(ui, message)
                /\ attempts' = [attempts EXCEPT ![response.id] =
                                   [@ EXCEPT !.result = "error", !.shown = message]]
    /\ UNCHANGED <<syncStore, localStore, selectedText, popup, storageQ, requests,
                   calls, events, clock, call, copyvars>>

ResponseArrives == \E response \in responses : sendMessageCallback(response)

\* The message never reaches a listener (the service worker is gone): the
\* callback will run with chrome.runtime.lastError set (content.js 210-213).
ChannelFails ==
    \E request \in requests :
        /\ requests' = requests \ {request}
        /\ responses' = responses \cup
               {Reply(request.id,
                      "Could not establish connection. Receiving end does not exist.",
                      FALSE, "", "")}
        /\ UNCHANGED <<syncStore, localStore, selectedText, popup, ui, storageQ,
                       calls, attempts, events, clock, call, copyvars>>

\* ---- the service worker (background.js 1-211) ----

\* The outcome of a fetch: none yet, a transport failure, a response that is
\* not ok (with the provider's error message, "" when the body has none), or
\* an ok response with its parsed body.
NoBody == Response("null", "undefined", 0, "undefined", "undefined", Undefined)

Outcome(kind, status, message, data) ==
    [kind |-> kind, status |-> status, message |-> message, data |-> data]

NoOutcome == Outcome("pending", 0, "", NoBody)

SummaryBody(content) == Response("object", "array", 1, "object", "object", content)

Outcomes ==
    {Outcome("network", 0, "", NoBody)} \cup
    {Outcome("http", status, "", NoBody) : status \in {401, 429, 500, 403}} \cup
    {Outcome("http", 403, message, NoBody) :
        message \in {"Quota exceeded", "Failed to fetch the model"}} \cup
    {Outcome("ok", 200, "", body) :
        body \in {SummaryBody(Str(" A short summary.\n")), SummaryBody(Str("  ")),
                  Response("object", "undefined", 0, "undefined", "undefined", Undefined)}}

\* What callOpenAI hands to fetch (background.js 70-97): the endpoint, the
\* headers and the fields of the JSON body.
fetchRequest(prompt, apiKey) ==
    [url |-> "https://api.openai.com/v1/chat/completions",
     method |-> "POST",
     contentType |-> "application/json",
     authorization |-> "Bearer " \o apiKey.v,
     model |-> "gpt-3.5-turbo",
     system |-> "You are a helpful assistant that creates concise summaries of text.",
     user |-> prompt,
     max_tokens |-> 150,
     temperature |-> "0.7"]

\* handleSummarizationBegins with the prompt built from the text as received.
handleSummarizationBegins_rawText(text, apiKey) ==
    IF ~Truthy(apiKey) THEN [t |-> "throw", v |-> Err("Invalid API key")]
    ELSE IF apiKey.t # "string"
    THEN [t |-> "throw", v |-> Err("apiKey.startsWith is not a function")]  \* TypeError
    ELSE IF ~startsWith(apiKey.v, "sk-")
    THEN [t |-> "throw", v |-> Err("Invalid API key")]
    ELSE LET validation == validateText(text)
         IN  IF ~validation.valid THEN [t |-> "throw", v |-> Err(validation.error.v)]
             ELSE [t |-> "fetch", v |-> createSummaryPrompt(text.v)]

\* handleSummarization (background.js 30-45) up to the call of callOpenAI:
\* the error thrown, or the prompt callOpenAI is called with.
handleSummarizationBegins(text, apiKey) ==
    IF ~Truthy(apiKey) THEN [t |-> "throw", v |-> Err("Invalid API key")]
    ELSE IF apiKey.t # "string"
    THEN [t |-> "throw", v |-> Err("apiKey.startsWith is not a function")]  \* TypeError
    ELSE IF ~startsWith(apiKey.v, "sk-")
    THEN [t |-> "throw", v |-> Err("Invalid API key")]
    ELSE LET validation == validateText(text)
         IN  IF ~validation.valid THEN [t |-> "throw", v |-> Err(validation.error.v)]
             ELSE [t |-> "fetch", v |-> createSummaryPrompt(sanitizeText(text))]

\* The onMessage listener (background.js 7-22) with handleSummarization up to
\* the await of fetch inside callOpenAI (background.js 70-97); a rejection is
\* answered through formatErrorMessage.
onMessage(request) ==
    /\ request \in requests
    /\ requests' = requests \ {request}
    /\ LET begun == handleSummarizationBegins(request.text, request.apiKey)
       IN  IF begun.t = "throw"
           THEN /\ responses' = responses \cup
                       {Reply(request.id, "", FALSE, "", formatErrorMessage(begun.v))}
                /\ UNCHANGED calls
           ELSE /\ calls' = calls \cup
                       {[id |-> request.id, text |-> request.text, prompt |-> begun.v,
                         apiKey |-> request.apiKey,
                         fetch |-> fetchRequest(begun.v, request.apiKey),
                         outcome |-> NoOutcome]}
                /\ UNCHANGED responses
    /\ UNCHANGED <<syncStore, localStore, selectedText, popup, ui, storageQ,
                   attempts, events, clock, call, copyvars>>

MessageReceived == \E request \in requests : onMessage(request)

\* callOpenAI (background.js 89-122) after fetch settles: the summary
\* returned or the error thrown.
callOpenAI(outcome) ==
    LET inTry ==
            IF outcome.kind = "network" THEN [t |-> "throw", v |-> Err("Failed to fetch")]
            ELSE IF outcome.kind = "http"
            THEN [t |-> "throw",
                  v |-> Err(IF outcome.status = 401
                            THEN "Invalid API key. Please check your OpenAI API key."
                            ELSE IF outcome.status = 429
                            THEN "Rate limit exceeded. Please try again later."
                            ELSE IF outcome.status = 500
                            THEN "OpenAI service error. Please try again later."
                            ELSE IF outcome.message # "" THEN outcome.message
                            ELSE "API error: " \o ToString(outcome.status))]
            ELSE parseApiResponse(outcome.data)
    IN  IF inTry.t = "throw" /\ includes(inTry.v.v, "Failed to fetch")
        THEN [t |-> "throw", v |-> Err("Network error. Please check your internet connection.")]
        ELSE inTry

\* fetchSettles with the error of a failed call swallowed: nothing is sent.
fetchSettles_swallows(c, outcome, now) ==
    /\ c \in calls
    /\ c.outcome = NoOutcome
    /\ calls' = (calls \ {c}) \cup {[c EXCEPT !.outcome = outcome]}
    /\ LET result == callOpenAI(outcome)
       IN  IF result.t = "return"
           THEN /\ localStore' = [localStore EXCEPT !.last_summary = Str(result.v),
                                                   !.last_summary_time = now]
                /\ clock' = now
                /\ responses' = responses \cup {Reply(c.id, "", TRUE, result.v, "")}
           ELSE UNCHANGED <<localStore, clock, responses>>
    /\ UNCHANGED <<syncStore, selectedText, popup, ui, storageQ, requests,
                   attempts, events, call, copyvars>>

\* fetchSettles with the summary appended to the stored one.
fetchSettles_appends(c, outcome, now) ==
    /\ c \in calls
    /\ c.outcome = NoOutcome
    /\ calls' = (calls \ {c}) \cup {[c EXCEPT !.outcome = outcome]}
    /\ LET result == callOpenAI(outcome)
       IN  IF result.t = "return"
           THEN /\ localStore' =
                       [localStore EXCEPT !.last_summary = Str(@.v \o result.v),
                                          !.last_summary_time = now]
                /\ clock' = now
                /\ responses' = responses \cup {Reply(c.id, "", TRUE, result.v, "")}
           ELSE /\ responses' = responses \cup
                       {Reply(c.id, "", FALSE, "", formatErrorMessage(result.v))}
                /\ UNCHANGED <<localStore, clock>>
    /\ UNCHANGED <<syncStore, selectedText, popup, ui, storageQ, requests,
                   attempts, events, call, copyvars>>

\* fetchSettles with a failed call issued once more.
fetchSettles_retry(c, outcome, now) ==
    /\ c \in calls
    /\ c.outcome = NoOutcome
    /\ LET result == callOpenAI(outcome)
       IN  IF result.t = "return"
           THEN /\ calls' = (calls \ {c}) \cup {[c EXCEPT !.outcome = outcome]}
                /\ localStore' = [localStore EXCEPT !.last_summary = Str(result.v),
                                                   !.last_summary_time = now]
                /\ clock' = now
                /\ responses' = responses \cup {Reply(c.id, "", TRUE, result.v, "")}
           ELSE /\ calls' = calls \cup {[c EXCEPT !.outcome = outcome]}
                /\ UNCHANGED <<localStore, clock, responses>>
    /\ UNCHANGED <<syncStore, selectedText, popup, ui, storageQ, requests,
                   attempts, events, call, copyvars>>

\* fetchSettles that stores the summary and leaves the stored time alone.
fetchSettles_keepsTime(c, outcome, now) ==
    /\ c \in calls
    /\ c.outcome = NoOutcome
    /\ calls' = (calls \ {c}) \cup {[c EXCEPT !.outcome = outcome]}
    /\ LET result == callOpenAI(outcome)
       IN  IF result.t = "return"
           THEN /\ localStore' = [localStore EXCEPT !.last_summary = Str(result.v)]
                /\ clock' = now
                /\ responses' = responses \cup {Reply(c.id, "", TRUE, result.v, "")}
           ELSE /\ responses' = responses \cup
                       {Reply(c.id, "", FALSE, "", formatErrorMessage(result.v))}
                /\ UNCHANGED <<localStore, clock>>
    /\ UNCHANGED <<syncStore, selectedText, popup, ui, storageQ, requests,
                   attempts, events, call, copyvars>>

\* fetchSettles whose catch answers after the then has answered too.
fetchSettles_answersTwice(c, outcome, now) ==
    /\ c \in calls
    /\ c.outcome = NoOutcome
    /\ calls' = (calls \ {c}) \cup {[c EXCEPT !.outcome = outcome]}
    /\ LET result == callOpenAI(outcome)
       IN  IF result.t = "return"
           THEN /\ localStore' = [localStore EXCEPT !.last_summary = Str(result.v),
                                                   !.last_summary_time = now]
                /\ clock' = now
                /\ responses' = responses \cup {Reply(c.id, "", TRUE, result.v, "")}
           ELSE /\ responses' = responses \cup
                       {Reply(c.id, "", TRUE, "", ""),
                        Reply(c.id, "", FALSE, "", formatErrorMessage(result.v))}
                /\ UNCHANGED <<localStore, clock>>
    /\ UNCHANGED <<syncStore, selectedText, popup, ui, storageQ, requests,
                   attempts, events, call, copyvars>>

\* handleSummarization (background.js 48-61) after callOpenAI settles, and the
\* listener's then/catch: the summary is stored with Date.now() and sent, or
\* the error is sent.
fetchSettles(c, outcome, now) ==
    /\ c \in calls
    /\ c.outcome = NoOutcome
    /\ calls' = (calls \ {c}) \cup {[c EXCEPT !.outcome = outcome]}
    /\ LET result == callOpenAI(outcome)
       IN  IF result.t = "return"
           THEN /\ localStore' = [localStore EXCEPT !.last_summary = Str(result.v),
                                                   !.last_summary_time = now]
                /\ clock' = now
                /\ responses' = responses \cup {Reply(c.id, "", TRUE, result.v, "")}
           ELSE /\ responses' = responses \cup
                       {Reply(c.id, "", FALSE, "", formatErrorMessage(result.v))}
                /\ UNCHANGED <<localStore, clock>>
    /\ UNCHANGED <<syncStore, selectedText, popup, ui, storageQ, requests,
                   attempts, events, call, copyvars>>

FetchSettles ==
    \E c \in calls, outcome \in Outcomes, now \in clock..MaxClock :
        fetchSettles(c, outcome, now)

\* ---- the system ----

IdleCall == [f |-> "none", arg |-> Null, done |-> TRUE, ret |-> Null]

InitSystem ==
    /\ localStore = [selected_text |-> Undefined, last_summary |-> Undefined,
                     last_summary_time |-> 0]
    /\ selectedText = ""
    /\ popup = "closed"
    /\ ui = InitialUi
    /\ storageQ = <<>>
    /\ requests = {}
    /\ calls = {}
    /\ responses = {}
    /\ attempts = <<>>
    /\ events = 0
    /\ clock = 1
    /\ copyButton = InitialCopyButton
    /\ clipboard = ""
    /\ copyQ = <<>>
    /\ timers = <<>>
    /\ copies = 0

Init ==
    /\ syncStore \in [openai_api_key : {Undefined, Str(VALID_KEY)},
                      selected_text : SyncTexts]
    /\ InitSystem
    /\ call = IdleCall

Next ==
    \/ SelectionEvent
    \/ DOMContentLoaded
    \/ CheckApiKeyResumes
    \/ SaveApiKeyAction
    \/ SaveApiKeyResumes
    \/ handleClearApiKey
    \/ ClearApiKeyResumes
    \/ AttemptResumes
    \/ MessageReceived
    \/ ChannelFails
    \/ FetchSettles
    \/ ResponseArrives

\* The extension while the copy button is left alone.
Spec == Init /\ [][Next]_vars

\* The extension with the copy button in use.
NextCopy ==
    \/ Next
    \/ handleCopyToClipboard
    \/ ClipboardWriteSettles
    \/ copyTimeout

SpecCopy == Init /\ [][NextCopy]_vars

\* The browser runs every callback that is due: a pending storage call comes
\* back, a fetch settles, and a response reaches the popup's callback; and no
\* message stays in the channel for ever: each is delivered to the listener
\* or fails.  The user's actions and the selection events of the page are
\* under no such obligation.
SpecLive ==
    /\ Spec
    /\ WF_vars(CheckApiKeyResumes)
    /\ WF_vars(SaveApiKeyResumes)
    /\ WF_vars(ClearApiKeyResumes)
    /\ WF_vars(AttemptResumes)
    /\ []<>(requests = {})
    /\ WF_vars(FetchSettles)
    /\ WF_vars(ResponseArrives)

(***************************************************************************)
(* The pure functions, each applied to inputs drawn from bounded sets.     *)
(* call is one invocation: the function's name, its argument, whether it   *)
(* has run, and what it returned (or threw).                               *)
(***************************************************************************)
MaxStrLen == 5      \* longest string over Alphabet given to the sanitizers
MaxTokens == 3      \* most tokens of an error message

Alphabet == {"a", "b", " ", "\t", "\n"}

RECURSIVE StringsOfLen(_)
StringsOfLen(n) ==
    IF n = 0 THEN {""} ELSE {s \o c : s \in StringsOfLen(n - 1), c \in Alphabet}

Strings == UNION {StringsOfLen(n) : n \in 0..MaxStrLen}

NonStrings == {Undefined, Null, Num("0"), Num("42"), Bool("true"), Obj}

\* Texts around both length limits, with and without surrounding white space.
TextInputs ==
    NonStrings \cup
    {Str(p \o Rep("a", n) \o q) :
        p \in {"", " ", "\n\t "}, q \in {"", " ", "\t\n"},
        n \in {0, 1, 2, 9, 10, 11, 9999, 10000, 10001}} \cup
    {Str("Hi"), Str("This is a valid text that is long enough to be processed.")}

KeyInputs ==
    NonStrings \cup
    {Str(p \o Rep("x", n)) :
        p \in {"sk-", "pk-", "SK-", "sk", " sk-", ""},
        n \in {0, 5, 16, 17, 18, 19, 26}} \cup
    {Str("sk-1234567890abcdefghijklmnop"), Str("pk-1234567890abcdefghijklmnop"),
     Str("sk-short")}

Tokens == {"401", "429", "500", "40", "1", "x"}

RECURSIVE MessagesOfLen(_)
MessagesOfLen(n) ==
    IF n = 0 THEN {""} ELSE {m \o k : m \in MessagesOfLen(n - 1), k \in Tokens}

Messages ==
    UNION {MessagesOfLen(n) : n \in 0..MaxTokens} \cup
    {"Something went wrong", "Request failed with status 401",
     "Request failed with status 429", "Request failed with status 500",
     "Custom error"}

ErrorInputs ==
    {Str(m) : m \in Messages} \cup {Err(m) : m \in Messages} \cup {Null, Undefined, Obj}

Contents ==
    {Undefined, Null, Str(""), Str("  "), Str("ok"), Str(" A short summary.\n"),
     Num("0"), Num("42"), Bool("true"), Bool("false"), Obj}

\* The responses whose lower levels exist only below an object (or array).
Responses ==
    {r \in {Response(rk, ck, n, ek, mk, c) :
                rk \in {"null", "object"},
                ck \in {"undefined", "null", "array", "number"},
                n \in 0..2,
                ek \in {"undefined", "null", "object", "number"},
                mk \in {"undefined", "null", "object", "number"},
                c \in Contents} :
        /\ r.kind = "null" => r.choices = "undefined"
        /\ r.choices # "array" => r.length = 0
        /\ r.length = 0 <=> r.first = "undefined"
        /\ r.first # "object" => r.message = "undefined"
        /\ r.message # "object" => r.content = Undefined}

\* Every string over Alphabet up to MaxStrLen, and the inputs of the tests.
SanitizeInputs ==
    {Null, Undefined} \cup {Str(s) : s \in Strings} \cup
    {Str("Hello    world"), Str("  Hello world  "), Str("Line 1\n\n\n\nLine 2")}

\* The texts handleSummarization is called with: valid ones and one of each
\* kind of invalid one.
OrchestratorTexts ==
    {Undefined, Str(""), Str("Hi"), Str(Rep("a", 10001)), Str(VALID_TEXT),
     Str("  Some   text\twith\n\n\n\nbreaks ")}

Call(f, arg) == [f |-> f, arg |-> arg, done |-> FALSE, ret |-> Null]

InitCall ==
    call \in {Call(f, x) : f \in {"validateText", "utils_validateText"}, x \in TextInputs}
        \cup {Call("validateApiKey", x) : x \in KeyInputs}
        \cup {Call(f, x) : f \in {"sanitizeText", "utils_sanitizeText"},
                           x \in SanitizeInputs}
        \cup {Call(f, s) : f \in {"createSummaryPrompt", "utils_createSummaryPrompt"},
                           s \in Strings \cup {"Sample text"}}
        \cup {Call(f, x) : f \in {"formatErrorMessage", "utils_formatErrorMessage"},
                           x \in ErrorInputs}
        \cup {Call(f, r) : f \in {"parseApiResponse", "utils_parseApiResponse"},
                           r \in Responses}
        \cup {Call("handleSummarization", [text |-> x, apiKey |-> k]) :
                   x \in OrchestratorTexts, k \in KeyInputs}

Pending(f) == ~call.done /\ call.f = f /\ UNCHANGED sysvars

Returned(value) == [call EXCEPT !.done = TRUE, !.ret = value]

Apply_validateText ==
    Pending("validateText") /\ call' = Returned(validateText(call.arg))

Apply_utils_validateText ==
    Pending("utils_validateText") /\ call' = Returned(utils_validateText(call.arg))

Apply_validateApiKey ==
    Pending("validateApiKey") /\ call' = Returned(validateApiKey(call.arg))

Apply_sanitizeText ==
    Pending("sanitizeText") /\ call' = Returned(sanitizeText(call.arg))

Apply_utils_sanitizeText ==
    Pending("utils_sanitizeText") /\ call' = Returned(utils_sanitizeText(call.arg))

Apply_createSummaryPrompt ==
    Pending("createSummaryPrompt") /\ call' = Returned(createSummaryPrompt(call.arg))

Apply_utils_createSummaryPrompt ==
    /\ Pending("utils_createSummaryPrompt")
    /\ call' = Returned(utils_createSummaryPrompt(call.arg))

Apply_formatErrorMessage ==
    Pending("formatErrorMessage") /\ call' = Returned(formatErrorMessage(call.arg))

Apply_utils_formatErrorMessage ==
    /\ Pending("utils_formatErrorMessage")
    /\ call' = Returned(utils_formatErrorMessage(call.arg))

Apply_parseApiResponse ==
    Pending("parseApiResponse") /\ call' = Returned(parseApiResponse(call.arg))

Apply_utils_parseApiResponse ==
    Pending("utils_parseApiResponse") /\ call' = Returned(utils_parseApiResponse(call.arg))

\* handleSummarization up to its first await.
Apply_handleSummarization ==
    /\ Pending("handleSummarization")
    /\ call' = Returned(handleSummarizationBegins(call.arg.text, call.arg.apiKey))

NextFn ==
    \/ Apply_validateText
    \/ Apply_utils_validateText
    \/ Apply_validateApiKey
    \/ Apply_sanitizeText
    \/ Apply_utils_sanitizeText
    \/ Apply_createSummaryPrompt
    \/ Apply_utils_createSummaryPrompt
    \/ Apply_formatErrorMessage
    \/ Apply_utils_formatErrorMessage
    \/ Apply_parseApiResponse
    \/ Apply_utils_parseApiResponse
    \/ Apply_handleSummarization

InitFn ==
    /\ syncStore = [openai_api_key |-> Undefined, selected_text |-> Undefined]
    /\ InitSystem
    /\ InitCall

SpecFn == InitFn /\ [][NextFn]_vars

Ran(f) == call.done /\ call.f = f

(***************************************************************************)
(* The content script on a page: selection events, and getSelectedText     *)
(* requests.  No code of the repository sends that request, so it is no    *)
(* action of Spec; here call records the last event or request handled:    *)
(* the live selection it found and, for a request, the response.           *)
(***************************************************************************)

MaxSelLen == 2      \* longest live selection over Alphabet

PageSelections == UNION {StringsOfLen(n) : n \in 0..MaxSelLen}

Handled(f, selection, value) ==
    [f |-> f, arg |-> Str(selection), done |-> TRUE, ret |-> value]

PageSelectionEvent ==
    \E selection \in PageSelections :
        /\ captureTextSelection(selection)
        /\ call' = Handled("captureTextSelection", selection, Undefined)

GetSelectedTextRequest ==
    \E selection \in PageSelections :
        /\ call' = Handled("getSelectedText", selection, getSelectedText(selection))
        /\ UNCHANGED sysvars

NextPage ==
    \/ PageSelectionEvent
    \/ GetSelectedTextRequest

\* The content script reads nothing of chrome.storage.sync: one initial state
\* of the extension stands for all.
InitPage ==
    /\ syncStore = [openai_api_key |-> Undefined, selected_text |-> Undefined]
    /\ InitSystem
    /\ call = IdleCall

SpecPage == InitPage /\ [][NextPage]_vars

(***************************************************************************)
(* Properties of the pure functions (checked under SpecFn)                 *)
(***************************************************************************)
IsText(x) == x.t = "string" /\ x.v # ""

\* A text that validateText is specified to accept.
ValidText(x) == IsText(x) /\ Len(trim(x.v)) >= 10 /\ Len(trim(x.v)) <= 10000

\* The characters of s that are no white space, in order.
RECURSIVE NonWhiteSpace(_)
NonWhiteSpace(s) ==
    IF s = "" THEN ""
    ELSE (IF Head(s) \in WhiteSpace THEN "" ELSE Head(s)) \o NonWhiteSpace(Tail(s))

\* C3: validateText (both implementations) returns {valid: true, error: null}
\* iff the text is a non-empty string whose trimmed length is in 10..10000;
\* otherwise {valid: false} with the implementation's fixed "no text" message
\* for an absent, empty or non-string text, the "too short" message below 10
\* and the "too long" message above 10000.
C3_ValidateTextContract ==
    \A f \in {"validateText", "utils_validateText"} :
        Ran(f) =>
            LET x == call.arg
                r == call.ret
                L == IF IsText(x) THEN Len(trim(x.v)) ELSE 0
                noText == IF f = "validateText" THEN "No text provided"
                          ELSE "Please highlight some text on the webpage first."
            IN  /\ r.valid <=> (IsText(x) /\ 10 <= L /\ L <= 10000)
                /\ r.valid => r.error = Null
                /\ ~IsText(x) => r = [valid |-> FALSE, error |-> Str(noText)]
                /\ (IsText(x) /\ L < 10) =>
                       r = [valid |-> FALSE,
                            error |-> Str("Selected text is too short. Please select at least 10 characters.")]
                /\ (IsText(x) /\ L > 10000) =>
                       r = [valid |-> FALSE,
                            error |-> Str("Selected text is too long. Please select less than 10,000 characters.")]

\* C3 witness: a text of exactly 10 characters inside white space was accepted.
C3_Witness ==
    /\ Ran("validateText")
    /\ call.arg = Str(" " \o Rep("a", 10) \o "\t\n")
    /\ call.ret = [valid |-> TRUE, error |-> Null]

C5_SanitizeIdempotent ==
    /\ Ran("sanitizeText") => sanitizeText(Str(call.ret)) = call.ret
    /\ Ran("utils_sanitizeText") => utils_sanitizeText(Str(call.ret)) = call.ret

\* C5 witness: a text with a run of four newlines was sanitized to another text.
C5_Witness ==
    /\ Ran("sanitizeText")
    /\ call.arg.t = "string"
    /\ includes(call.arg.v, "a\n\n\n\n")
    /\ call.ret # call.arg.v
    /\ call.ret # ""

\* C6: both sanitizers turn every run of 3 or more newlines inside the text
\* into exactly 2 newlines, and not into a space:
\* "Line 1\n\n\n\nLine 2" becomes "Line 1\n\nLine 2".
C6_NewlineRunsBecomeTwo ==
    \A f \in {"sanitizeText", "utils_sanitizeText"} :
        (Ran(f) /\ call.arg.t = "string") =>
            /\ includes(trim(call.arg.v), "\n\n\n") =>
                   (includes(call.ret, "\n\n") /\ ~includes(call.ret, "\n\n\n"))
            /\ call.arg.v = "Line 1\n\n\n\nLine 2" => call.ret = "Line 1\n\nLine 2"

\* C6 holds of the service worker's sanitizer alone.
C6_BackgroundOnly ==
    (Ran("sanitizeText") /\ call.arg.t = "string") =>
        /\ includes(trim(call.arg.v), "\n\n\n") =>
               (includes(call.ret, "\n\n") /\ ~includes(call.ret, "\n\n\n"))
        /\ call.arg.v = "Line 1\n\n\n\nLine 2" => call.ret = "Line 1\n\nLine 2"

\* C7: both sanitizers return "" for null, undefined and ""; for any other
\* string the result neither starts nor ends with white space, holds no tab
\* and no two adjacent spaces, and keeps the input's non-white-space
\* characters in order.
C7_SanitizeShape ==
    \A f \in {"sanitizeText", "utils_sanitizeText"} :
        Ran(f) =>
            LET x == call.arg
                r == call.ret
            IN  IF ~IsText(x) THEN r = ""
                ELSE /\ r # "" => (CharAt(r, 1) \notin WhiteSpace
                                     /\ CharAt(r, Len(r)) \notin WhiteSpace)
                     /\ ~includes(r, "\t")
                     /\ ~includes(r, "  ")
                     /\ NonWhiteSpace(r) = NonWhiteSpace(x.v)

\* C7 witness: leading white space was trimmed and a run of a space and a
\* tab became one space.
C7_Witness ==
    Ran("utils_sanitizeText") /\ call.arg = Str("\ta \tb") /\ call.ret = "a b"

\* C8: createSummaryPrompt(text) is the fixed instruction followed by the
\* text: it starts with the instruction, ends with the text unmodified, and
\* its length is the sum of both lengths.
C8_PromptIsInstructionThenText ==
    \A f \in {"createSummaryPrompt", "utils_createSummaryPrompt"} :
        Ran(f) =>
            LET instruction ==
                    "Please provide a concise summary of the following text in 2-3 sentences:\n\n"
                text == call.arg
                prompt == call.ret
            IN  /\ Len(prompt) = Len(instruction) + Len(text)
                /\ SubSeq(prompt, 1, Len(instruction)) = instruction
                /\ SubSeq(prompt, Len(prompt) - Len(text) + 1, Len(prompt)) = text
                /\ startsWith(prompt, "Please provide a concise summary")

\* C8 witness: the prompt of a text with surrounding white space was built.
C8_Witness ==
    /\ Ran("createSummaryPrompt")
    /\ call.arg = " a\n"
    /\ Len(call.ret) = Len(call.arg) + 74

\* What the classifier of C9 returns for an Error with message m, given the
\* generic fallback.
Classified(m, fallback) ==
    IF includes(m, "401") THEN "Invalid API key. Please check your OpenAI API key."
    ELSE IF includes(m, "429") THEN "Rate limit exceeded. Please try again later."
    ELSE IF includes(m, "500") THEN "OpenAI service error. Please try again later."
    ELSE IF m # "" THEN m
    ELSE fallback

\* C9 as stated, of both formatErrorMessage functions: a string is returned
\* unchanged; for an Error the message is searched for "401", then "429", then
\* "500" and the fixed message of the first found is returned; with none found
\* the Error's message, or the generic fallback when that is empty.
C9_BothClassify ==
    /\ Ran("utils_formatErrorMessage") =>
           /\ call.arg.t = "string" => call.ret = call.arg.v
           /\ call.arg.t = "Error" =>
                  call.ret = Classified(call.arg.v,
                      "Failed to generate summary. Please check your API key and try again.")
    /\ Ran("formatErrorMessage") =>
           /\ call.arg.t = "string" => call.ret = call.arg.v
           /\ call.arg.t = "Error" =>
                  call.ret = Classified(call.arg.v,
                      "An error occurred while generating the summary.")

\* C9, amended: the utility formatErrorMessage is that classifier ("401"
\* before "429" before "500", then the Error's message, then its generic
\* fallback; a string unchanged).  The service worker's formatErrorMessage
\* classifies nothing: it returns a string unchanged and, for an Error, the
\* Error's message whatever it holds, or its own fallback when that is empty.
C9_ClassifyError ==
    /\ Ran("utils_formatErrorMessage") =>
           LET e == call.arg
               r == call.ret
           IN  /\ e.t = "string" => r = e.v
               /\ e.t = "Error" =>
                      r = Classified(e.v,
                              "Failed to generate summary. Please check your API key and try again.")
               /\ e = Err("Something went wrong") => r = "Something went wrong"
               /\ e = Err("429401") => r = "Invalid API key. Please check your OpenAI API key."
    /\ Ran("formatErrorMessage") =>
           LET e == call.arg
               r == call.ret
           IN  /\ e.t = "string" => r = e.v
               /\ e.t = "Error" =>
                      r = (IF e.v # "" THEN e.v
                           ELSE "An error occurred while generating the summary.")

\* C9 witness: a message holding "429" before "401" was classified as the
\* invalid credential.
C9_Witness ==
    /\ Ran("utils_formatErrorMessage")
    /\ call.arg = Err("429401")
    /\ call.ret = "Invalid API key. Please check your OpenAI API key."

\* A response with a non-empty string at choices[0].message.content.
HasSummary(r) ==
    /\ r.kind = "object"
    /\ r.choices = "array"
    /\ r.length >= 1
    /\ r.first = "object"
    /\ r.message = "object"
    /\ r.content.t = "string"
    /\ r.content.v # ""

\* C10: parseApiResponse (both implementations) throws the implementation's
\* invalid-response Error, and nothing else, for a response without a
\* non-empty string at choices[0].message.content, and returns that string
\* trimmed for every other response.
C10_ParseOrInvalidResponse ==
    /\ Ran("parseApiResponse") =>
           call.ret = (IF HasSummary(call.arg)
                       THEN [t |-> "return", v |-> trim(call.arg.content.v)]
                       ELSE [t |-> "throw", v |-> Err("Invalid response from API")])
    /\ Ran("utils_parseApiResponse") =>
           call.ret = (IF HasSummary(call.arg)
                       THEN [t |-> "return", v |-> trim(call.arg.content.v)]
                       ELSE [t |-> "throw", v |-> Err("Received invalid response from API.")])

\* C10 witness: a response whose content is a number was rejected.
C10_Witness ==
    /\ Ran("parseApiResponse")
    /\ call.arg.message = "object"
    /\ call.arg.content = Num("42")
    /\ call.ret.t = "throw"

\* C11: handleSummarization throws the invalid-credential error, whatever the
\* text and before any prompt is built or fetch is issued, for every
\* credential that validateApiKey rejects: absent, no string, not prefixed
\* "sk-", or of length <= 20 such as "sk-short".
C11_RejectsEveryInvalidCredential ==
    (Ran("handleSummarization") /\ ~validateApiKey(call.arg.apiKey)) =>
        call.ret = [t |-> "throw", v |-> Err("Invalid API key")]

\* What does hold: the credentials rejected are the falsy ones and the strings
\* without the prefix "sk-"; a prefixed string of any length goes on to the
\* text validation.
C11_RejectsUnprefixedOnly ==
    Ran("handleSummarization") =>
        LET k == call.arg.apiKey
        IN  /\ (~Truthy(k) \/ (k.t = "string" /\ ~startsWith(k.v, "sk-"))) =>
                   call.ret = [t |-> "throw", v |-> Err("Invalid API key")]
            /\ (k.t = "string" /\ startsWith(k.v, "sk-") /\ ValidText(call.arg.text)) =>
                   call.ret.t = "fetch"

(***************************************************************************)
(* Properties of the running extension (checked under Spec)                *)
(***************************************************************************)
\* The popup validator's message for a text that is not valid.
ValidatorMessage(x) ==
    IF ~IsText(x) THEN "Please highlight some text on the webpage first."
    ELSE IF Len(trim(x.v)) < 10
    THEN "Selected text is too short. Please select at least 10 characters."
    ELSE "Selected text is too long. Please select less than 10,000 characters."

\* The attempts whose read of selected_text has come back.
HasRead == {i \in 1..Len(attempts) : attempts[i].result \notin {"reading", "readFailed"}}

\* Nothing of attempt i is or was on its way to the service worker or the
\* remote endpoint.
NothingSent(i) ==
    /\ \A request \in requests : request.id # i
    /\ \A c \in calls : c.id # i
    /\ \A response \in responses : response.id # i

\* C1: with a valid credential, once the content script has captured a
\* selection whose trimmed length is in 10..10000, the popup's attempt sends a
\* summarizeText request for exactly that selection; and when the attempt
\* ends with a summary, that is the trimmed choices[0].message.content of the
\* remote call made for that selection, which the popup displays.
C1_EndToEndSuccess ==
    \A i \in HasRead :
        LET a == attempts[i]
        IN  ValidText(a.captured) =>
                /\ a.text = a.captured
                /\ a.result \in {"sent", "summary", "error"}
                /\ a.result = "summary" =>
                       \E c \in calls :
                           /\ c.id = i
                           /\ c.text = a.captured
                           /\ c.outcome.kind = "ok"
                           /\ HasSummary(c.outcome.data)
                           /\ a.shown = trim(c.outcome.data.content.v)

\* C2 as stated: every attempt whose text fails validateText sends nothing
\* and ends in showError with the validator's message.
C2_EveryInvalidTextShowsError ==
    \A i \in HasRead :
        LET a == attempts[i]
        IN  ~ValidText(a.text) =>
                /\ NothingSent(i)
                /\ a.result = "invalid"
                /\ a.shown = ValidatorMessage(a.text)

\* A text with a character that is no white space.
NonBlank(x) == IsText(x) /\ trim(x.v) # ""

\* The step in which attempt i learns its text and stops without sending.
StopsAtValidation(i) ==
    /\ attempts[i].result = "reading"
    /\ attempts'[i].result \in {"invalid", "instruction"}

\* C2, amended: an attempt whose text fails validateText never sends a
\* request and never causes a remote call.  When the text has a character
\* that is no white space, the attempt ends in showError with the validator's
\* message: the error view holds it, and the popup is in ShowingError as long
\* as the summary section is displayed.  When the text is absent, empty or all
\* white space, the attempt ends in showInstruction instead: the popup is in
\* AwaitingSelection under the same condition, and no error message is set.
C2_InvalidTextNeverSent ==
    /\ [](\A i \in HasRead :
              LET a == attempts[i]
              IN  ~ValidText(a.text) =>
                      /\ NothingSent(i)
                      /\ IF NonBlank(a.text)
                         THEN a.result = "invalid" /\ a.shown = ValidatorMessage(a.text)
                         ELSE a.result = "instruction" /\ a.shown = "")
    /\ [][\A i \in 1..Len(attempts) :
              StopsAtValidation(i) =>
                  IF NonBlank(attempts'[i].text)
                  THEN /\ attempts'[i].result = "invalid"
                       /\ ui'.errorState = "block"
                       /\ ui'.loadingState = "none"
                       /\ ui'.errorText = ValidatorMessage(attempts'[i].text)
                       /\ ui'.summarySection = "block" => UIStateOf(ui') = "ShowingError"
                  ELSE /\ attempts'[i].result = "instruction"
                       /\ ui'.instructionState = "block"
                       /\ ui'.errorState = "none"
                       /\ ui'.errorText = ui.errorText
                       /\ ui'.summarySection = "block" => UIStateOf(ui') = "AwaitingSelection"]_vars

\* C2 witness: the attempt read "Hi", sent nothing, and the popup is in
\* ShowingError with the "too short" message.
C2_Witness ==
    /\ Len(attempts) >= 1
    /\ attempts[1].text = Str("Hi")
    /\ attempts[1].result = "invalid"
    /\ NothingSent(1)
    /\ UIState = "ShowingError"
    /\ ui.errorText = "Selected text is too short. Please select at least 10 characters."

\* The remote calls made for attempt i.
CallsOf(i) == {c \in calls : c.id = i}

\* The step delivers request to the onMessage listener (and not to nobody).
Received(request) ==
    /\ request \in requests
    /\ request \notin requests'
    /\ \A response \in responses' \ responses : response.lastError = ""

StatusMessage(outcome) ==
    IF outcome.status = 401 THEN "Invalid API key. Please check your OpenAI API key."
    ELSE IF outcome.status = 429 THEN "Rate limit exceeded. Please try again later."
    ELSE IF outcome.status = 500 THEN "OpenAI service error. Please try again later."
    ELSE IF outcome.message # "" THEN outcome.message
    ELSE "API error: " \o ToString(outcome.status)

\* The attempt of call c is answered, and its answer shown, with message only.
AnsweredWith(c, message) ==
    /\ \A response \in responses :
           response.id = c.id => (/\ response.lastError = ""
                                  /\ ~response.success
                                  /\ response.error = message)
    /\ attempts[c.id].result \in {"sent", "error"}
    /\ attempts[c.id].result = "error" => attempts[c.id].shown = message

\* C13: when the remote endpoint answers with a status that is no success,
\* the message sent to the popup, and shown by it through showError, is the
\* fixed message of 401, 429 or 500, and for any other status the provider's
\* message if there is one, else "API error: <status>".
C13_StatusMessageShown ==
    \A c \in calls : c.outcome.kind = "http" => AnsweredWith(c, StatusMessage(c.outcome))

\* What holds of C13: the same, except that a provider's message that holds
\* "Failed to fetch" is replaced by the network-error message.
C13_ExceptFailedToFetch ==
    \A c \in calls :
        c.outcome.kind = "http" =>
            AnsweredWith(c, IF includes(StatusMessage(c.outcome), "Failed to fetch")
                            THEN "Network error. Please check your internet connection."
                            ELSE StatusMessage(c.outcome))

\* The calls that settle in the step.
SettledNow == {c \in calls' \ calls : c.outcome # NoOutcome}

\* The remote call c ended with a success payload holding a summary.
Succeeded(c) == c.outcome.kind = "ok" /\ HasSummary(c.outcome.data)

\* C14: last_summary and last_summary_time change only in the step in which a
\* remote call succeeds with a summary, and that step sets last_summary to
\* exactly the summary it returns to the popup; every other step, the failure
\* of an attempt at any point included, leaves both unchanged.
C14_LastSummaryOnlyOnSuccess ==
    [][/\ \A c \in SettledNow :
              IF Succeeded(c)
              THEN /\ localStore'.last_summary = Str(trim(c.outcome.data.content.v))
                   /\ \E response \in responses' \ responses :
                          /\ response.id = c.id
                          /\ response.success
                          /\ Str(response.summary) = localStore'.last_summary
              ELSE /\ localStore'.last_summary = localStore.last_summary
                   /\ localStore'.last_summary_time = localStore.last_summary_time
       /\ (\A c \in SettledNow : ~Succeeded(c)) =>
              /\ localStore'.last_summary = localStore.last_summary
              /\ localStore'.last_summary_time = localStore.last_summary_time]_vars

\* C14 witness: the first attempt stored its summary, the second failed at the
\* remote call, and the stored summary is still the first one.
C14_Witness ==
    /\ Len(attempts) >= 2
    /\ attempts[1].result = "summary"
    /\ attempts[2].result = "error"
    /\ \E c \in CallsOf(2) : c.outcome.kind \in {"http", "network"}
    /\ localStore.last_summary = Str(attempts[1].shown)
    /\ attempts[1].shown = "A short summary."

\* A credential that validateCredential is specified to accept.
ValidKey(x) == x.t = "string" /\ Len(x.v) > 20 /\ startsWith(x.v, "sk-")

\* The step in which the credential read of popup open comes back.
CheckSettles ==
    /\ storageQ # <<>>
    /\ Head(storageQ).pc = "checkApiKey"
    /\ storageQ' = <<>> \/ Head(storageQ').pc # "checkApiKey"

\* The step starts one attempt, with credential key, and the UI is in Loading.
StartsAttempt(key) ==
    /\ Len(attempts') = Len(attempts) + 1
    /\ attempts'[Len(attempts')].apiKey = key
    /\ attempts'[Len(attempts')].result = "reading"
    /\ UIStateOf(ui') = "Loading"

HeadSettles(pc) ==
    /\ storageQ # <<>>
    /\ Head(storageQ).pc = pc
    /\ storageQ' # storageQ
    /\ Len(storageQ') <= Len(storageQ)

\* The step is a save action (click or Enter) whose trimmed input is
\* rejected: nothing is queued.
RejectedSave == events' = events + 1 /\ storageQ' = storageQ

\* The step is a save action that goes on to write credential key.
AcceptedSave(key) ==
    /\ events' = events + 1
    /\ storageQ' = Append(storageQ, Pending_("save", 0, key))

\* C16 as stated: the write of a saved valid credential always persists it,
\* moves the UI to Loading and starts an attempt with it.
C16_ValidSaveAlwaysLoads ==
    [][HeadSettles("save") =>
           /\ syncStore'.openai_api_key = Str(Head(storageQ).apiKey)
           /\ StartsAttempt(Head(storageQ).apiKey)]_vars

\* C16, amended: a save action writes the trimmed input only if it passes
\* validateCredential; when that write succeeds the credential is persisted,
\* the UI is in Loading and an attempt with that credential has started, all
\* in one step; when the write fails nothing is persisted, no attempt starts,
\* and the message "Failed to save API key. Please try again." is shown, not
\* Loading.  A save action whose trimmed input fails validation persists
\* nothing, starts no attempt and does not move the UI to Loading; and the
\* stored credential is set in no other step.
C16_SaveCredential ==
    [][/\ \A value \in KeyEntries :
              AcceptedSave(trim(value)) => ValidKey(Str(trim(value)))
       /\ (events' = events + 1 /\ storageQ' # storageQ) =>
              \/ \E value \in KeyEntries : AcceptedSave(trim(value))
              \/ storageQ' = Append(storageQ, Pending_("clear", 0, ""))
       /\ RejectedSave =>
              /\ syncStore' = syncStore
              /\ attempts' = attempts
              /\ requests' = requests
              /\ UIStateOf(ui') # "Loading"
       /\ HeadSettles("save") =>
              LET key == Head(storageQ).apiKey
              IN  /\ ValidKey(Str(key))
                  /\ \/ /\ syncStore'.openai_api_key = Str(key)
                        /\ StartsAttempt(key)
                     \/ /\ syncStore' = syncStore
                        /\ attempts' = attempts
                        /\ UIStateOf(ui') # "Loading"
                        /\ ui'.errorText = "Failed to save API key. Please try again."
       /\ (syncStore'.openai_api_key # syncStore.openai_api_key
               /\ syncStore'.openai_api_key # Undefined) => HeadSettles("save")]_vars

\* C16 witness: the one user action was a save of the credential typed with
\* spaces around it (no error was ever shown, no other storage call is
\* pending): it is stored trimmed, and the popup is in Loading with the first
\* attempt, which carries it.
C16_Witness ==
    /\ events = 1
    /\ ui.errorText = ""
    /\ Len(storageQ) = 1
    /\ Head(storageQ).pc = "attempt"
    /\ syncStore.openai_api_key = Str(VALID_KEY)
    /\ UIState = "Loading"
    /\ Len(attempts) = 1
    /\ attempts[1].apiKey = VALID_KEY
    /\ attempts[1].result = "reading"

\* The step in which attempt i gets the selection it asked the store for.
ReadsSelection(i) ==
    /\ attempts[i].result = "reading"
    /\ attempts'[i].result \notin {"reading", "readFailed"}

\* C17 as stated: an attempt that finds no selection text moves the UI to
\* AwaitingSelection, whatever happened while it was reading.
C17_NoSelectionAlwaysAwaits ==
    [][\A i \in 1..Len(attempts) :
           (ReadsSelection(i) /\ ~NonBlank(syncStore.selected_text)) =>
               UIStateOf(ui') = "AwaitingSelection"]_vars

\* C17, amended: an attempt that finds the selection text absent, empty or
\* all white space calls showInstruction: it sends no request then or later,
\* the instruction view is displayed and the error and loading views are not,
\* and the UI is in AwaitingSelection; only when the credential was cleared
\* while the attempt was reading is the summary section hidden, and the UI
\* stays in AwaitingCredential.
C17_NoSelectionAwaitsSelection ==
    /\ [][\A i \in 1..Len(attempts) :
              (ReadsSelection(i) /\ ~NonBlank(syncStore.selected_text)) =>
                  /\ attempts'[i].result = "instruction"
                  /\ requests' = requests
                  /\ ui'.instructionState = "block"
                  /\ ui'.errorState = "none"
                  /\ ui'.loadingState = "none"
                  /\ ui'.errorText = ui.errorText
                  /\ IF ui.summarySection = "block"
                     THEN UIStateOf(ui') = "AwaitingSelection"
                     ELSE /\ UIStateOf(ui') = "AwaitingCredential"
                          /\ syncStore.openai_api_key = Undefined]_vars
    /\ [](\A i \in 1..Len(attempts) :
              attempts[i].result = "instruction" =>
                  ~NonBlank(attempts[i].text) /\ NothingSent(i))

\* C17 witness: the first attempt found a selection of two spaces, sent
\* nothing, and the popup is in AwaitingSelection.
C17_Witness ==
    /\ Len(attempts) >= 1
    /\ attempts[1].text = Str("  ")
    /\ attempts[1].result = "instruction"
    /\ NothingSent(1)
    /\ UIState = "AwaitingSelection"
    /\ ui.errorState = "none"

\* The responses handed to the popup's sendMessage callback in the step.
Delivered == responses \ responses'

\* The response reports a summary (and no channel error).
IsSuccess(response) == response.lastError = "" /\ response.success

\* C18 as stated: every success response moves the UI to ShowingSummary with
\* the returned summary, and every other response moves it to ShowingError
\* with a non-empty message.
C18_ResponseAlwaysShown ==
    [][\A response \in Delivered :
           IF IsSuccess(response)
           THEN UIStateOf(ui') = "ShowingSummary" /\ ui'.summaryText = response.summary
           ELSE UIStateOf(ui') = "ShowingError" /\ ui'.errorText # ""]_vars

\* C18, amended: when a response arrives, a success response makes the
\* summary view the one displayed, holding exactly the returned summary, and a
\* failure response or a channel error makes the error view the one
\* displayed, holding a non-empty message (the response's error, a fixed text
\* when it has none, or "Extension error: " and the channel's message); the
\* UI is then in ShowingSummary or ShowingError and never in Loading, except
\* that after the credential was cleared the summary section is hidden and
\* the UI stays in AwaitingCredential.
C18_ResponseShown ==
    [][\A response \in Delivered :
           /\ ui'.loadingState = "none"
           /\ ui'.instructionState = "none"
           /\ IF IsSuccess(response)
              THEN /\ ui'.summaryContent = "block"
                   /\ ui'.errorState = "none"
                   /\ ui'.summaryText = response.summary
              ELSE /\ ui'.errorState = "block"
                   /\ ui'.summaryContent = "none"
                   /\ ui'.errorText # ""
                   /\ ui'.errorText =
                          (IF response.lastError # ""
                           THEN "Extension error: " \o response.lastError
                           ELSE IF response.error # "" THEN response.error
                           ELSE "Failed to generate summary")
           /\ IF ui.summarySection = "block"
              THEN UIStateOf(ui') = (IF IsSuccess(response) THEN "ShowingSummary"
                                     ELSE "ShowingError")
              ELSE /\ UIStateOf(ui') = "AwaitingCredential"
                   /\ syncStore.openai_api_key = Undefined]_vars

\* C18 witness: the success response of the first attempt has arrived, and
\* the popup is in ShowingSummary with the summary the remote call returned.
C18_Witness ==
    /\ Len(attempts) >= 1
    /\ attempts[1].result = "summary"
    /\ responses = {}
    /\ UIState = "ShowingSummary"
    /\ ui.summaryText = "A short summary."

\* C20 as stated: the clear-credential action always removes the stored
\* credential and moves the UI to AwaitingCredential.
C20_ClearAlwaysRemoves ==
    [][HeadSettles("clear") =>
           /\ syncStore'.openai_api_key = Undefined
           /\ UIStateOf(ui') = "AwaitingCredential"]_vars

\* C20, amended: when the removal asked for by a clear-credential action
\* succeeds, in whatever state the UI is, the stored credential is gone and
\* the UI is in AwaitingCredential; when the removal fails the credential
\* stays stored, the sections stay as they are and "Failed to clear API key.
\* Please try again." is shown.  The UI leaves AwaitingCredential only in the
\* step that persists a saved valid credential, not when a response of an
\* earlier request arrives or an earlier attempt ends; and the stored
\* credential is removed in no other step.
C20_ClearCredential ==
    [][/\ HeadSettles("clear") =>
              \/ /\ syncStore'.openai_api_key = Undefined
                 /\ UIStateOf(ui') = "AwaitingCredential"
              \/ /\ syncStore' = syncStore
                 /\ ui'.apiKeySection = ui.apiKeySection
                 /\ ui'.summarySection = ui.summarySection
                 /\ ui'.errorText = "Failed to clear API key. Please try again."
       /\ (UIStateOf(ui) = "AwaitingCredential" /\ UIStateOf(ui') # "AwaitingCredential") =>
              /\ HeadSettles("save")
              /\ ValidKey(Str(Head(storageQ).apiKey))
              /\ syncStore'.openai_api_key = Str(Head(storageQ).apiKey)
       /\ (syncStore.openai_api_key # Undefined /\ syncStore'.openai_api_key = Undefined) =>
              HeadSettles("clear")]_vars

\* C20 witness: the credential was cleared while the first attempt's request
\* was in flight; its response is on its way to the popup, which is in
\* AwaitingCredential with no credential stored.
C20_Witness ==
    /\ Len(attempts) >= 1
    /\ attempts[1].result = "sent"
    /\ \E response \in responses : response.id = 1 /\ response.success
    /\ syncStore.openai_api_key = Undefined
    /\ UIState = "AwaitingCredential"

(***************************************************************************)
(* Liveness of the running extension (checked under SpecLive)              *)
(***************************************************************************)
\* The results with which an attempt is over.
Final == {"readFailed", "instruction", "invalid", "summary", "error"}

\* C19 as stated: from Loading the UI always reaches ShowingSummary,
\* ShowingError or AwaitingSelection.
C19_LoadingLeadsToDisplay ==
    (UIState = "Loading") ~>
        (UIState \in {"ShowingSummary", "ShowingError", "AwaitingSelection"})

\* C19, amended: every attempt comes to an end (it shows the instruction, an
\* error or a summary), and from Loading the UI always reaches
\* ShowingSummary, ShowingError or AwaitingSelection, or else
\* AwaitingCredential with the credential cleared by the user meanwhile; it
\* never stays in Loading.
C19_AttemptTerminates ==
    /\ \A i \in 1..(MaxEvents + 1) :
           (Len(attempts) >= i) ~> (Len(attempts) >= i /\ attempts[i].result \in Final)
    /\ (UIState = "Loading") ~>
           \/ UIState \in {"ShowingSummary", "ShowingError", "AwaitingSelection"}
           \/ UIState = "AwaitingCredential" /\ syncStore.openai_api_key = Undefined

\* C19 witness: the first attempt's remote call failed in transport, and the
\* popup has left Loading for ShowingError with the network-error message.
C19_Witness ==
    /\ Len(attempts) >= 1
    /\ attempts[1].result = "error"
    /\ \E c \in CallsOf(1) : c.outcome.kind = "network"
    /\ UIState = "ShowingError"
    /\ ui.errorText = "Network error. Please check your internet connection."

(***************************************************************************)
(* The copy button.                                                        *)
(***************************************************************************)

\* A step of handleCopyToClipboard: the click, or the continuation after the
\* clipboard write has settled.
CopyStep == copyQ' # copyQ

\* C21 (as stated): the copy action performed in ShowingSummary leaves the UI
\* state ShowingSummary and the displayed summary text unchanged, whether or
\* not the clipboard write succeeds.
C21_CopyKeepsState ==
    [][(CopyStep /\ UIState = "ShowingSummary")
           => (UIStateOf(ui') = "ShowingSummary" /\ ui'.summaryText = ui.summaryText)]_vars

\* C22 (as stated): after any sequence of successful copy actions, once all
\* pending delays have fired the copy button shows its original label and
\* styling again.
C22_ConfirmationReverts ==
    (copies > 0 /\ copyQ = <<>> /\ timers = <<>>) => copyButton = InitialCopyButton

(***************************************************************************)
(* The views of the popup.                                                 *)
(***************************************************************************)

Displayed(display) == display \in {"block", "flex"}

\* checkApiKey or a later handler has shown one of the two sections.
Initialised == ui.apiKeySection # "" \/ ui.summarySection # ""

\* The views inside the summary section that are displayed.
ViewsShown ==
    {view \in {"loadingState", "summaryContent", "errorState", "instructionState"} :
        Displayed(ui[view])}

\* C23: once the popup is initialised exactly one of the credential section
\* and the summary section is displayed; at most one of the loading, summary,
\* error and instruction views is displayed, exactly one once a show* function
\* has run; and the UI is in one of the five states of the controller.
C23_OneViewVisible ==
    /\ Initialised =>
           /\ Displayed(ui.apiKeySection) # Displayed(ui.summarySection)
           /\ {ui.apiKeySection, ui.summarySection} = {"block", "none"}
           /\ UIState \in {"AwaitingCredential", "Loading", "ShowingSummary",
                           "ShowingError", "AwaitingSelection"}
    /\ Cardinality(ViewsShown) <= 1
    /\ ui.statusText # "" => Cardinality(ViewsShown) = 1

\* C23 witness: an error is displayed after a summary had been displayed.
C23_Witness ==
    /\ UIState = "ShowingError"
    /\ ui.summaryText # ""
    /\ ViewsShown = {"errorState"}

(***************************************************************************)
(* Concurrency of the attempts.                                            *)
(***************************************************************************)

\* The attempts whose summarizeText message has been sent and whose response
\* has not reached the popup's callback.
InFlight == {i \in 1..Len(attempts) : attempts[i].result = "sent"}

\* C24 (as stated): at most one summarization request is in flight at any
\* time, under every sequence of popup events (open, save, clear).
C24_OneRequestInFlight ==
    /\ Cardinality(InFlight) <= 1
    /\ Cardinality(requests) + Cardinality({c \in calls : c.outcome = NoOutcome}) <= 1

(***************************************************************************)
(* The request sent to the remote endpoint.                                *)
(***************************************************************************)

\* C25: every call to the remote endpoint is issued with the fixed model
\* identifier and system instruction, max_tokens 150, temperature 0.7, the
\* credential of its attempt as a Bearer authorization header, and as user
\* content the prompt built from the sanitized text of its attempt: when
\* sanitizing changes the text, not the prompt built from the text as
\* selected; and the request of a call is the same when the call settles.
C25_RequestContents ==
    [][/\ \A c \in calls' \ calls :
              c.outcome = NoOutcome =>
                  LET attempt == attempts[c.id]
                      sanitized == sanitizeText(attempt.text)
                  IN  /\ c.fetch.url = "https://api.openai.com/v1/chat/completions"
                      /\ c.fetch.method = "POST"
                      /\ c.fetch.model = "gpt-3.5-turbo"
                      /\ c.fetch.system =
                             "You are a helpful assistant that creates concise summaries of text."
                      /\ c.fetch.max_tokens = 150
                      /\ c.fetch.temperature = "0.7"
                      /\ c.fetch.authorization = "Bearer " \o attempt.apiKey
                      /\ c.fetch.user = createSummaryPrompt(sanitized)
                      /\ sanitized # attempt.text.v
                             => c.fetch.user # createSummaryPrompt(attempt.text.v)
       /\ \A c \in SettledNow : [c EXCEPT !.outcome = NoOutcome] \in calls]_vars

\* C25 witness: a call was issued for a text that sanitizing changes.
C25_Witness ==
    \E c \in calls :
        /\ ValidText(attempts[c.id].text)
        /\ sanitizeText(attempts[c.id].text) # attempts[c.id].text.v
        /\ c.fetch.authorization = "Bearer " \o VALID_KEY

(***************************************************************************)
(* The content script.                                                     *)
(***************************************************************************)

\* The step handles a selection event, or a getSelectedText request.
Handles(f) == call'.f = f

\* What the content script has stored under selected_text, "" when nothing.
LastCaptured ==
    IF localStore.selected_text = Undefined THEN "" ELSE localStore.selected_text.v

\* C26: a selection event whose trimmed selection is non-empty writes it to
\* the store and to the in-memory last selection; one whose selection is
\* empty or white space leaves both as they were; so the stored selection,
\* once set, is a non-empty trimmed string, the same as the in-memory one.
C26_CaptureNonEmptyOnly ==
    /\ [][Handles("captureTextSelection") =>
              LET text == trim(call'.arg.v)
              IN  IF text # ""
                  THEN /\ selectedText' = text
                       /\ localStore' = [localStore EXCEPT !.selected_text = Str(text)]
                  ELSE UNCHANGED <<selectedText, localStore>>]_vars
    /\ [](/\ LastCaptured = selectedText
          /\ localStore.selected_text # Undefined =>
                 /\ IsText(localStore.selected_text)
                 /\ trim(LastCaptured) = LastCaptured)

\* C26 witness: after a selection was captured, an event with a selection of
\* white space has been handled and the captured one is still there.
C26_Witness ==
    /\ call.f = "captureTextSelection"
    /\ call.arg.v # ""
    /\ trim(call.arg.v) = ""
    /\ selectedText # ""
    /\ localStore.selected_text = Str(selectedText)

\* C27: a getSelectedText request is answered with success and the trimmed
\* live selection when that is non-empty, otherwise with the selection last
\* captured ("" when none was); it changes neither the stored nor the
\* in-memory selection.
C27_GetSelectedText ==
    [][Handles("getSelectedText") =>
           LET text == trim(call'.arg.v)
           IN  /\ call'.ret.success
               /\ call'.ret.text = IF text # "" THEN text ELSE LastCaptured
               /\ UNCHANGED <<selectedText, localStore>>]_vars

\* C27 witness: with a selection captured earlier, a request found no live
\* selection and was answered with the captured one.
C27_Witness ==
    /\ call.f = "getSelectedText"
    /\ trim(call.arg.v) = ""
    /\ selectedText # ""
    /\ call.ret = [success |-> TRUE, text |-> selectedText]

(***************************************************************************)
(* What is persisted.                                                      *)
(***************************************************************************)

\* C28: the persisted credential is absent or a string that validateApiKey
\* accepts; it is written only when a save settles, with the trimmed and
\* validated entry of that save, and removed only when a clear settles; the
\* steps of an attempt (message, remote call with any outcome, response)
\* leave it as it is.
C28_PersistedCredential ==
    /\ [](/\ syncStore.openai_api_key # Undefined =>
                 /\ ValidKey(syncStore.openai_api_key)
                 /\ validateApiKey(syncStore.openai_api_key)
          /\ \A n \in 1..Len(storageQ) :
                 storageQ[n].pc = "save" =>
                     /\ validateApiKey(Str(storageQ[n].apiKey))
                     /\ trim(storageQ[n].apiKey) = storageQ[n].apiKey)
    /\ [][/\ syncStore'.openai_api_key # syncStore.openai_api_key =>
                 IF syncStore'.openai_api_key = Undefined
                 THEN HeadSettles("clear")
                 ELSE /\ HeadSettles("save")
                      /\ syncStore'.openai_api_key = Str(Head(storageQ).apiKey)
          /\ (requests' # requests \/ calls' # calls \/ responses' # responses)
                 => syncStore'.openai_api_key = syncStore.openai_api_key]_vars

\* C28 witness: the one action of the user was a save that has settled; the
\* attempt it started has been answered 401 by the remote endpoint, and the
\* credential of the save is persisted all the same.
C28_Witness ==
    /\ events = 1
    /\ storageQ = <<>>
    /\ ui.errorText = ""
    /\ Len(attempts) = 1
    /\ attempts[1].result = "sent"
    /\ \E c \in CallsOf(1) : c.outcome.kind = "http" /\ c.outcome.status = 401
    /\ syncStore.openai_api_key = Str(attempts[1].apiKey)

\* C29 (as stated): the persisted last summary is absent or a non-empty
\* string, and a summary shown in ShowingSummary is non-empty, also when the
\* message content of a remote success payload is white space only.
C29_SummaryNonEmpty ==
    /\ localStore.last_summary # Undefined => IsText(localStore.last_summary)
    /\ UIState = "ShowingSummary" => ui.summaryText # ""

(***************************************************************************)
(* The network error.                                                      *)
(***************************************************************************)

\* C30 (as stated): when the remote call fails at the transport level the
\* attempt is answered with the fixed network-error message, and an attempt
\* whose call got an HTTP response (an error status, or a payload that is
\* invalid) is never answered with that message.
C30_NetworkErrorOnlyForTransport ==
    [][\A c \in SettledNow :
           \E response \in responses' \ responses :
               /\ response.id = c.id
               /\ c.outcome.kind = "network" =>
                      /\ ~response.success
                      /\ response.error =
                             "Network error. Please check your internet connection."
               /\ c.outcome.kind # "network" =>
                      response.error #
                          "Network error. Please check your internet connection."]_vars

(***************************************************************************)
(* The order of the orchestrator's checks (checked under SpecFn).          *)
(***************************************************************************)

\* C31 (as stated): handleSummarization checks the credential before the
\* text: with a credential and a text that are both invalid it throws the
\* invalid-credential error, not an error of the text validation; and with
\* either of them invalid no prompt is built and no request is made.
C31_CredentialBeforeText ==
    Ran("handleSummarization") =>
        LET invalidKey == ~validateApiKey(call.arg.apiKey)
            invalidText == ~validateText(call.arg.text).valid
        IN  /\ (invalidKey /\ invalidText) =>
                   call.ret = [t |-> "throw", v |-> Err("Invalid API key")]
            /\ (invalidKey \/ invalidText) => call.ret.t = "throw"

(***************************************************************************)
(* The answers of the service worker (checked under Spec).                 *)
(***************************************************************************)

\* The answers of the onMessage listener to the message of attempt i that
\* are on their way to the popup.
AnswersTo(i) == {response \in responses : response.id = i /\ response.lastError = ""}

\* C32: a summarizeText message received by the listener is answered exactly
\* once: in the step in which handleSummarization settles (it throws before
\* the remote call, or the remote call settles) exactly one answer is sent,
\* none is sent in another step, and none while the call is pending or after
\* the answer has reached the popup; an answer is {success: true, summary}
\* or {success: false, error} with a non-empty error, never both.
C32_AnsweredExactlyOnce ==
    /\ [](\A i \in 1..Len(attempts) :
              /\ Cardinality(AnswersTo(i)) <= 1
              /\ AnswersTo(i) # {} =>
                     /\ attempts[i].result = "sent"
                     /\ \A c \in CallsOf(i) : c.outcome # NoOutcome
                     /\ \A request \in requests : request.id # i
              /\ \A response \in AnswersTo(i) :
                     IF response.success
                     THEN response.error = ""
                     ELSE response.summary = "" /\ response.error # "")
    /\ [][/\ \A c \in SettledNow :
                 Cardinality({response \in responses' \ responses :
                                  response.id = c.id /\ response.lastError = ""}) = 1
          /\ \A request \in requests :
                 (Received(request) /\ CallsOf(request.id) = {d \in calls' : d.id = request.id})
                     => Cardinality({response \in responses' \ responses :
                                         response.id = request.id}) = 1
          /\ \A response \in responses' \ responses :
                 response.lastError = "" =>
                     \/ \E c \in SettledNow : c.id = response.id
                     \/ \E request \in requests :
                            Received(request) /\ request.id = response.id]_vars

\* C32 witness: the message of the first attempt was received, its remote
\* call failed, and the one answer, an error, is on its way to the popup.
C32_Witness ==
    /\ Len(attempts) = 1
    /\ \E c \in CallsOf(1) : c.outcome.kind = "http"
    /\ \E response \in responses :
           /\ AnswersTo(1) = {response}
           /\ ~response.success
           /\ response.error # ""

(***************************************************************************)
(* Responses that arrive out of order (checked under Spec).                *)
(***************************************************************************)

\* C33 (as stated): the response to an earlier request never overwrites the
\* view, or the Loading state, of an attempt started later: what the popup
\* shows after a response is delivered is the outcome of the attempt started
\* last.
C33_LatestAttemptShown ==
    [][\A response \in Delivered :
           response.id < Len(attempts) => ui' = ui]_vars

(***************************************************************************)
(* The two validators of the text (checked under SpecFn).                  *)
(***************************************************************************)

\* C34 (as stated): the validateText of the service worker and the
\* validateText of the utilities return the same {valid, error} for every
\* input.
C34_ValidatorsAgree ==
    /\ Ran("validateText") => call.ret = utils_validateText(call.arg)
    /\ Ran("utils_validateText") => call.ret = validateText(call.arg)

(***************************************************************************)
(* The stored summary and its time (checked under Spec).                   *)
(***************************************************************************)

\* C35: last_summary and last_summary_time are written in one update of the
\* store: both are absent or both are present; a step that changes either
\* is one in which a remote call succeeds, and it writes the summary of that
\* call together with the Date.now() it reads; so the stored time is the one
\* taken when the stored summary was written.
C35_SummaryAndTimeTogether ==
    /\ [](/\ localStore.last_summary = Undefined <=> localStore.last_summary_time = 0
          /\ localStore.last_summary_time <= clock)
    /\ [][(\/ localStore'.last_summary # localStore.last_summary
           \/ localStore'.last_summary_time # localStore.last_summary_time) =>
              \E c \in SettledNow :
                  /\ Succeeded(c)
                  /\ localStore'.last_summary = Str(trim(c.outcome.data.content.v))
                  /\ localStore'.last_summary_time = clock'
                  /\ clock' >= clock]_vars

\* C35 witness: a second summary has been stored over the first, at a later
\* time, and the stored time is that of the second.
C35_Witness ==
    /\ Len(attempts) = 2
    /\ \A c \in calls : Succeeded(c)
    /\ Cardinality(calls) = 2
    /\ \E c \in calls : localStore.last_summary = Str(trim(c.outcome.data.content.v))
    /\ localStore.last_summary_time = clock
    /\ clock > 1

====
